---- MODULE Spec2Model ----
(***************************************************************************)
(* lidar_server: UDP frame reassembly (udp/listener.rs), the two bounded   *)
(* relay channels (main.rs), the relay task and the session registry       *)
(* (ws/server.rs), the session command handlers                            *)
(* (lidar/kanavi_mobility/ws_handler.rs) and the frame decoder             *)
(* (lidar/kanavi_mobility/udp_handler.rs).                                 *)
(***************************************************************************)
EXTENDS Integers, Sequences, FiniteSets, TLC

VARIABLES
    channel_data,      \* UdpListener.channel_data: LiDARKey -> raw_data
    recv_pc,           \* UDP receive task: "recv", "send" (suspended in send), "dead"
    pending,           \* envelope the receive task is suspended on (<<>> if none)
    udp_to_ws,         \* mpsc channel UDP -> session side (FIFO of envelopes)
    relay_alive,       \* relay task of WsServer::start still running
    ws_alive,          \* the task running WsServer::start has not panicked
    clients,           \* AppState.clients: ids of the sessions holding a sink
    client_lidar_map,  \* AppState.client_lidar_map: session id -> LiDARInfo
    lidar_infos,       \* AppState.lidar_infos (KnownDeviceSet)
    next_id,           \* number of session ids handed out so far (fresh per connect)
    sess_pc,           \* per session: "none", "idle", "sleep", "send", "closed"
    registered,        \* history: identity last named in set/register_lidar
    window,            \* history: identities decoded since the session's clear
    discarded,         \* history: keys whose buffer was dropped for its first byte
    ws_to_udp,         \* mpsc channel session side -> UDP (FIFO of envelopes)
    ws_pending,        \* per session: envelope its send is suspended on (<<>> if none)
    hist,              \* history: the envelopes in flight in both directions
    sent,              \* messages written to session sinks by the last step
    ev                 \* the last step: operation, inputs and outcome

vars == <<channel_data, recv_pc, pending, udp_to_ws, relay_alive, ws_alive,
          clients,
          client_lidar_map, lidar_infos, next_id, sess_pc, registered, window,
          discarded, ws_to_udp, ws_pending, hist, sent, ev>>

-----------------------------------------------------------------------------
(* Bounds of the model *)

MaxSessions == 2

(* Program constants *)

SYNC == 250              \* 0xFA
HEADER_LEN == 7
CHECKSUM_LEN == 1
ENCODE_BUF == 4096
RECV_BUF == 65535
CHANNEL_CAP == 1
MODE_CF == 207           \* 0xCF
MODE_NAK == 240          \* 0xF0
MODE_DD == 221           \* 0xDD

-----------------------------------------------------------------------------
(* Byte vectors.  A Vec<u8> is held as an explicit prefix `head` followed  *)
(* by `pad` bytes of value 0, so that payloads of thousands of bytes stay  *)
(* small values.                                                           *)

BV(h, p) == [head |-> h, pad |-> p]

Empty == BV(<<>>, 0)

BLen(v) == Len(v.head) + v.pad

\* v[i], 0-based as in the source
At(v, i) == IF i < Len(v.head) THEN v.head[i + 1] ELSE 0

\* v[i..j], 0-based, j exclusive
Slice(v, i, j) ==
    LET hl == Len(v.head)
        hi == IF j < hl THEN j ELSE hl
        lo == IF i > hl THEN i ELSE hl
    IN  BV(IF i < hi THEN SubSeq(v.head, i + 1, hi) ELSE <<>>,
           IF j > lo THEN j - lo ELSE 0)

\* the concatenation is representable when no explicit byte follows a pad
Representable(v, d) == v.pad = 0 \/ d.head = <<>>

\* a faulty append, for comparison: the datagram replaces the buffer
extend_from_slice_drop(v, d) == d

extend_from_slice(v, d) ==
    IF v.pad = 0 THEN BV(v.head \o d.head, d.pad)
    ELSE BV(v.head, v.pad + Len(d.head) + d.pad)

-----------------------------------------------------------------------------
(* LiDARKey: (ip << 16) | port, held as the six base-256 digits of the     *)
(* 48-bit value, most significant first.                                   *)

\* a faulty packing, for comparison: the fourth octet shifted by 8, not 16,
\* so that it shares a byte with the port
create_key_overlap(ip, port) ==
    <<0, ip[1], ip[2], ip[3],
      IF ip[4] > port \div 256 THEN ip[4] ELSE port \div 256, port % 256>>

create_key(ip, port) ==
    <<ip[1], ip[2], ip[3], ip[4], port \div 256, port % 256>>

LiDARKey_new(ip, port) == create_key(ip, port)

get_ip(key) == <<key[1], key[2], key[3], key[4]>>

get_port(key) == key[5] * 256 + key[6]

\* Ipv4Addr::to_string
ip_to_string(ip) ==
    ToString(ip[1]) \o "." \o ToString(ip[2]) \o "." \o
    ToString(ip[3]) \o "." \o ToString(ip[4])

Null == [null |-> TRUE]

\* a faulty identity, for comparison: the device id is left out
LiDARInfo_new_noid(ip, port, product_line, lidar_id) ==
    [ip |-> ip_to_string(ip), port |-> port,
     product_line |-> product_line, lidar_id |-> 0]

LiDARInfo_new(ip, port, product_line, lidar_id) ==
    [ip |-> ip_to_string(ip), port |-> port,
     product_line |-> product_line, lidar_id |-> lidar_id]

\* serde_json::to_value of a LiDARInfo: an object of its four fields
LiDARInfo_to_json(info) == info

LiDARChannelData_new(key, raw_data) == [key |-> key, raw_data |-> raw_data]

\* bincode standard(): variable-length integers
varint_len_small(n) ==
    IF n < 251 THEN 1 ELSE IF n < 65536 THEN 3 ELSE 5

key_varint_len(key) ==
    IF key[1] # 0 \/ key[2] # 0 THEN 9
    ELSE IF key[3] # 0 \/ key[4] # 0 THEN 5
    ELSE varint_len_small(key[5] * 256 + key[6])

encoded_len(cd) ==
    key_varint_len(cd.key) + varint_len_small(BLen(cd.raw_data)) + BLen(cd.raw_data)

\* encode_into_slice(..).unwrap() into a vec![0u8; 4096]: TRUE iff it fits
encode_into_slice(cd) == encoded_len(cd) <= ENCODE_BUF

-----------------------------------------------------------------------------
(* Frame reassembly: the checks of UdpListener::start on a key's buffer    *)
(* after the datagram has been appended.                                   *)

data_len(raw) == At(raw, 5) * 256 + At(raw, 6)

total_len(raw) == data_len(raw) + HEADER_LEN + CHECKSUM_LEN

\* faulty variants of the checks, for comparison: no wait for the declared
\* length; an overrun taken for a frame; a bad first byte kept
reassemble_no_wait(raw) ==
    IF BLen(raw) = 0 THEN "empty"
    ELSE IF At(raw, 0) = SYNC THEN
        IF BLen(raw) < HEADER_LEN THEN "short"
        ELSE IF BLen(raw) > total_len(raw) THEN "overrun"
        ELSE "complete"
    ELSE "badsync"

reassemble_resync(raw) ==
    IF BLen(raw) = 0 THEN "empty"
    ELSE IF At(raw, 0) = SYNC THEN
        IF BLen(raw) < HEADER_LEN THEN "short"
        ELSE IF BLen(raw) < total_len(raw) THEN "partial"
        ELSE "complete"
    ELSE "badsync"

reassemble_keep_badsync(raw) ==
    IF BLen(raw) = 0 THEN "empty"
    ELSE IF At(raw, 0) = SYNC THEN
        IF BLen(raw) < HEADER_LEN THEN "short"
        ELSE IF BLen(raw) < total_len(raw) THEN "partial"
        ELSE IF BLen(raw) > total_len(raw) THEN "overrun"
        ELSE "complete"
    ELSE "partial"

\* "empty", "short", "partial": keep and wait;  "overrun", "badsync": clear;
\* "complete": encode, send, clear
reassemble(raw) ==
    IF BLen(raw) = 0 THEN "empty"
    ELSE IF At(raw, 0) = SYNC THEN
        IF BLen(raw) < HEADER_LEN THEN "short"
        ELSE IF BLen(raw) < total_len(raw) THEN "partial"
        ELSE IF BLen(raw) > total_len(raw) THEN "overrun"
        ELSE "complete"
    ELSE "badsync"

-----------------------------------------------------------------------------
(* Frame decoding: KanaviUDPHandler.  An outcome is a value ("ok"), an     *)
(* error value ("err") or a panic of the calling task ("panic").           *)

Ok(v) == [kind |-> "ok", value |-> v, message |-> ""]
Err(m) == [kind |-> "err", value |-> Null, message |-> m]
Panic == [kind |-> "panic", value |-> Null, message |-> ""]

ResponseMessage_new ==
    [lidar_info |-> Null, status |-> "", message |-> "", data |-> Null]

\* (fov_list length, h_fov / h_fov_resol) by product line
fov_count(product_line) ==
    IF product_line \in {2, 3} THEN 2 ELSE IF product_line = 7 THEN 1 ELSE 4

\* a faulty table, for comparison: every product line sweeps 100 degrees
h_steps_100(product_line) == 400

h_steps(product_line) ==
    IF product_line \in {2, 3} THEN 480 ELSE IF product_line = 7 THEN 1080 ELSE 400

\* u8 as i8
as_i8(b) == IF b < 128 THEN b ELSE b - 256

\* a faulty shift, for comparison: the logical shift of the byte
shr7_logical(v) == IF v < 0 THEN 1 ELSE 0

\* i8 >> 7: the arithmetic shift keeps the sign
shr7(v) == IF v < 0 THEN -1 ELSE 0

\* UserArea::parse_coordinate on one byte.  The correction branch
\* ((b ^ 0xFF) as i8 + 1) * -1 is taken when (value >> 7) == 0x01; in it the
\* byte 0x80 overflows i8: a panic with overflow checks, -128 without.
sign_byte(b, checks) ==
    IF shr7(as_i8(b)) = 1
    THEN (IF (255 - b) + 1 > 127 THEN (IF checks THEN Panic ELSE Ok(-128))
          ELSE Ok(-((255 - b) + 1)))
    ELSE Ok(as_i8(b))

\* value in hundredths: value1 + value2 * 0.01
parse_coordinate(b0, b1, checks) ==
    LET v1 == sign_byte(b0, checks)
        v2 == sign_byte(b1, checks)
    IN  IF v1.kind = "panic" \/ v2.kind = "panic" THEN Panic
        ELSE Ok(v1.value * 100 + v2.value)

\* one point of a UserArea: x, y from two bytes each, z = 0
parse_point(bytes, i, checks) ==
    LET x == parse_coordinate(At(bytes, i), At(bytes, i + 1), checks)
        y == parse_coordinate(At(bytes, i + 2), At(bytes, i + 3), checks)
    IN  IF x.kind = "panic" \/ y.kind = "panic" THEN Panic
        ELSE Ok([x |-> x.value, y |-> y.value, z |-> 0])

\* the values of a loop's results; a panic in any of them is a panic
Collect(results) ==
    IF \E p \in DOMAIN results : results[p].kind = "panic" THEN Panic
    ELSE Ok([p \in DOMAIN results |-> results[p].value])

\* UserArea::parse_points over bytes[i..n]: one point per 4 bytes
parse_points(bytes, i, n, checks) ==
    Collect([p \in 1..((n - i) \div 4) |->
                parse_point(bytes, i + 4 * (p - 1), checks)])

\* (point_count * 4) as usize: the product is a u8
area_bytes(point_count) == (point_count * 4) % 256

\* data_idx at the head of the a-th pass (from 0) of the area loop
area_start(data, a) ==
    LET idx[i \in 0..a] ==
            IF i = 0 THEN 14
            ELSE idx[i - 1] + 1 + area_bytes(At(data, idx[i - 1]))
    IN  idx[a]

\* one pass of the area loop of parse_cf 0x11 at data[idx]: the area's
\* point count and its points
parse_area(data, idx, checks) ==
    IF idx >= BLen(data) THEN Panic
    ELSE IF At(data, idx) * 4 > 255 /\ checks THEN Panic
    ELSE IF idx + 1 + area_bytes(At(data, idx)) > BLen(data) THEN Panic
    ELSE Collect(<<Ok(At(data, idx)),
                   parse_points(data, idx + 1,
                                idx + 1 + area_bytes(At(data, idx)), checks)>>)

\* the area loop of parse_cf 0x11; each area is <<point_count, points>>
parse_areas(data, area_count, checks) ==
    Collect([a \in 1..area_count |->
                parse_area(data, area_start(data, a - 1), checks)])

\* a faulty list, for comparison: the ack parameter 0x9d is missing
AckParams_short ==
    {1, 33, 49, 65, 81, 97, 129, 145, 161, 177, 193, 225,
     3, 19, 35, 51, 83, 115, 179, 211, 243, 37, 69}

AckParams ==
    {1, 33, 49, 65, 81, 97, 129, 145, 161, 177, 193, 225,
     3, 19, 35, 51, 83, 115, 157, 179, 211, 243, 37, 69}

\* the record each arm of `match param` constructs
KMConfigData_of(param) ==
    CASE param = 17 -> "BasicConfig"
      [] param = 113 -> "VersionInfo"
      [] param = 209 -> "NetworkSourceInfo"
      [] param = 241 -> "TeachingArea"
      [] param = 67 -> "NetworkDestinationIP"
      [] param = 99 -> "MotorSpeed"
      [] param = 131 -> "WarningArea"
      [] param = 163 -> "FogFilter"
      [] param = 195 -> "RadiusFilter"
      [] param = 227 -> "RadiusFilterMaxDistance"
      [] param = 5 -> "WindowContaminationDetectionMode"
      [] param = 21 -> "TeachingMode"
      [] param = 53 -> "RadiusFilterMinDistance"
      [] param \in AckParams -> "Ack"
      [] OTHER -> "not supported param"

\* the fields of each record, as serde writes them
FieldsOf(record) ==
    CASE record = "BasicConfig" ->
            {"output_channel", "self_check_active_state", "pulse_active_state",
             "pulse_output_mode", "pulse_pin_mode", "pulse_pin_channel",
             "start_angle", "finish_angle", "min_distance", "max_distance",
             "object_size", "area_count", "areas"}
      [] record = "VersionInfo" ->
            {"firmware_version", "hardware_version", "end_target"}
      [] record = "NetworkSourceInfo" ->
            {"ip_address", "mac_address", "subnet_mask", "gateway", "port"}
      [] record = "TeachingArea" -> {"is_set", "points"}
      [] record = "NetworkDestinationIP" -> {"ip_address"}
      [] record = "MotorSpeed" -> {"speed"}
      [] record = "WarningArea" -> {"danger_area", "warning_area", "caution_area"}
      [] record = "FogFilter" -> {"filter_value"}
      [] record = "RadiusFilter" -> {"filter_value"}
      [] record = "RadiusFilterMaxDistance" -> {"max_distance"}
      [] record = "WindowContaminationDetectionMode" -> {"mode"}
      [] record = "TeachingMode" -> {"range", "margin"}
      [] record = "RadiusFilterMinDistance" -> {"min_distance"}
      [] record = "Ack" -> {"ack_code"}
      [] OTHER -> {}

Bytes(data, i, n) == [j \in 1..n |-> At(data, i + j - 1)]

\* a faulty dispatch, for comparison: every parameter is taken as an ack
parse_cf_ack(product_line, param, data, checks) ==
    IF BLen(data) < 1 THEN Panic ELSE Ok([ack_code |-> At(data, 0)])

parse_cf(product_line, param, data, checks) ==
    LET n == BLen(data)
        one(field) == IF n < 1 THEN Panic ELSE Ok(field)
    IN  CASE param = 17 ->                                  \* 0x11 BasicConfig
               IF n < 14 THEN Panic
               ELSE LET areas == parse_areas(data, At(data, 13), checks)
                    IN  IF areas.kind = "panic" THEN Panic
                        ELSE Ok([output_channel |-> At(data, 0),
                                 self_check_active_state |-> At(data, 1),
                                 pulse_active_state |-> At(data, 2),
                                 pulse_output_mode |-> At(data, 3),
                                 pulse_pin_mode |-> At(data, 4),
                                 pulse_pin_channel |-> At(data, 5),
                                 start_angle |-> At(data, 6) * 256 + At(data, 7),
                                 finish_angle |-> At(data, 8) * 256 + At(data, 9),
                                 min_distance |-> At(data, 10),
                                 max_distance |-> At(data, 11),
                                 object_size |-> At(data, 12),
                                 area_count |-> At(data, 13),
                                 areas |-> areas.value])
          [] param = 113 ->                                 \* 0x71 VersionInfo
               IF n < 7 THEN Panic
               ELSE Ok([firmware_version |-> Bytes(data, 0, 3),
                        hardware_version |-> Bytes(data, 3, 3),
                        end_target |-> At(data, 6)])
          [] param = 209 ->                                 \* 0xD1 NetworkSourceInfo
               IF n < 20 THEN Panic
               ELSE Ok([ip_address |-> Bytes(data, 0, 4),
                        mac_address |-> Bytes(data, 4, 6),
                        subnet_mask |-> Bytes(data, 10, 4),
                        gateway |-> Bytes(data, 14, 4),
                        port |-> At(data, 18) * 256 + At(data, 19)])
          [] param = 241 ->                                 \* 0xF1 TeachingArea
               IF n < 1 THEN Panic
               ELSE IF At(data, 0) # 1 THEN Ok([is_set |-> At(data, 0), points |-> <<>>])
               ELSE IF (n - 1) % 2 = 1 THEN Panic
               ELSE IF (n - 1) \div 2 < fov_count(product_line) * h_steps(product_line)
                    THEN Panic
               ELSE Ok([is_set |-> 1,
                        points |-> [c \in 1..fov_count(product_line) |->
                                        h_steps(product_line)]])
          [] param = 67 ->                                  \* 0x43 NetworkDestinationIP
               IF n < 4 THEN Panic ELSE Ok([ip_address |-> Bytes(data, 0, 4)])
          [] param = 99 -> one([speed |-> At(data, 0)])            \* 0x63
          [] param = 131 ->                                 \* 0x83 WarningArea
               IF n < 6 THEN Panic
               ELSE Ok([danger_area |-> Bytes(data, 0, 2),
                        warning_area |-> Bytes(data, 2, 2),
                        caution_area |-> Bytes(data, 4, 2)])
          [] param = 163 -> one([filter_value |-> At(data, 0)])    \* 0xA3 FogFilter
          [] param = 195 -> one([filter_value |-> At(data, 0)])    \* 0xC3 RadiusFilter
          [] param = 227 -> one([max_distance |-> At(data, 0)])    \* 0xE3
          [] param = 5 -> one([mode |-> At(data, 0)])              \* 0x05
          [] param = 21 ->                                  \* 0x15 TeachingMode
               IF n < 2 THEN Panic
               ELSE Ok([range |-> At(data, 0), margin |-> At(data, 1)])
          [] param = 53 -> one([min_distance |-> At(data, 0)])     \* 0x35
          [] param \in AckParams -> one([ack_code |-> At(data, 0)])
          [] OTHER -> Err("not supported param")

\* a faulty channel, for comparison: the parameter byte unmasked
parse_dd_raw(product_line, param, data) ==
    LET n == BLen(data)
    IN  IF n = 0 THEN Panic
        ELSE IF param >= fov_count(product_line) THEN Panic
        ELSE IF n \div 2 < h_steps(product_line) THEN Panic
        ELSE Ok([point_cloud |-> [points |-> h_steps(product_line)],
                 channel |-> param,
                 detection_value |-> At(data, n - 1)])

parse_dd(product_line, param, data) ==
    LET n == BLen(data)
        ch == param % 16
    IN  IF n = 0 THEN Panic
        ELSE IF ch >= fov_count(product_line) THEN Panic
        ELSE IF n \div 2 < h_steps(product_line) THEN Panic
        ELSE Ok([point_cloud |-> [points |-> h_steps(product_line)],
                 channel |-> ch,
                 detection_value |-> At(data, n - 1)])

\* KanaviUDPHandler::parse
parse(ip, port, data, checks) ==
    IF BLen(data) < 8 THEN Err("not enough data")
    ELSE IF At(data, 0) # SYNC THEN Err("invalid header")
    ELSE IF BLen(data) # total_len(data) THEN Err("not enough data")
    ELSE LET product_line == At(data, 1)
             lidar_id == At(data, 2)
             mode == At(data, 3)
             param == At(data, 4)
             payload == Slice(data, 7, 7 + data_len(data))
             res == [ResponseMessage_new EXCEPT !.lidar_info =
                        LiDARInfo_to_json(LiDARInfo_new(ip, port, product_line, lidar_id))]
         IN  CASE mode = MODE_CF ->
                    LET r == parse_cf(product_line, param, payload, checks)
                    IN  IF r.kind = "ok" THEN Ok([res EXCEPT !.data = r.value]) ELSE r
               [] mode = MODE_NAK ->
                    Ok([res EXCEPT !.status = "error", !.message = "NAK"])
               [] mode = MODE_DD ->
                    LET r == parse_dd(product_line, param, payload)
                    IN  IF r.kind = "ok"
                        THEN Ok([res EXCEPT !.status = "none", !.data = r.value])
                        ELSE r
               [] OTHER -> Ok(res)

-----------------------------------------------------------------------------
(* The encoder's checksum: the exclusive-or of all preceding bytes.        *)

RECURSIVE xor(_, _)
xor(a, b) ==
    IF a = 0 THEN b
    ELSE IF b = 0 THEN a
    ELSE (((a % 2) + (b % 2)) % 2) + 2 * xor(a \div 2, b \div 2)

\* a faulty checksum, for comparison: the last byte alone
checksum_last(bytes) == IF bytes = <<>> THEN 0 ELSE bytes[Len(bytes)]

RECURSIVE checksum(_)
checksum(bytes) ==
    IF bytes = <<>> THEN 0
    ELSE xor(checksum(SubSeq(bytes, 1, Len(bytes) - 1)), bytes[Len(bytes)])

-----------------------------------------------------------------------------
(* Session side: AppState and the command handlers.                        *)

Put(m, k, v) == [x \in DOMAIN m \cup {k} |-> IF x = k THEN v ELSE m[x]]

Msg(to, kind, msg) == [to |-> to, kind |-> kind, msg |-> msg]

\* a faulty broadcast, for comparison: every session is sent the message
broadcast_message_all(cl, map, message) ==
    {Msg(c, "push", message) : c \in cl}

\* AppState::broadcast_message: the sessions whose map entry, as JSON text,
\* equals the message's lidar_info
broadcast_message(cl, map, message) ==
    {Msg(c, "push", message) :
        c \in {x \in cl : /\ x \in DOMAIN map
                          /\ LiDARInfo_to_json(map[x]) = message.lidar_info}}

\* a faulty send_message, for comparison: the reply goes to every session
send_message_all(cl, uuid, message) == {Msg(c, "reply", message) : c \in cl}

\* AppState::send_message
send_message(cl, uuid, message) ==
    IF uuid \in cl THEN {Msg(uuid, "reply", message)} ELSE {}

\* A session message: text that is JSON or not; when JSON, an object whose
\* fields lidar_info, command and type are present or absent.
Req(lidar_info, command, type) ==
    [json |-> TRUE, absent |-> {}, lidar_info |-> lidar_info,
     command |-> command, type |-> type]

ReqWithout(field) ==
    [json |-> TRUE, absent |-> {field}, lidar_info |-> Null,
     command |-> "get", type |-> "basic_config"]

NotJson ==
    [json |-> FALSE, absent |-> {}, lidar_info |-> Null,
     command |-> "", type |-> ""]

\* serde_json::from_value::<LiDARInfo>: an object of the four fields
LiDARInfo_from_json(v) ==
    IF DOMAIN v = {"ip", "port", "product_line", "lidar_id"}
    THEN Ok(v) ELSE Err("invalid type")

\* the addresses a dotted text can stand for
Addresses == {<<192, 168, 0, 10>>, <<192, 168, 0, 11>>}

\* str.parse::<Ipv4Addr>(): the address whose dotted text is str
parse_ip(str) ==
    IF \E ip \in Addresses : ip_to_string(ip) = str
    THEN Ok(CHOOSE ip \in Addresses : ip_to_string(ip) = str)
    ELSE Err("invalid IPv4 address syntax")

\* a faulty encoder, for comparison: the length field counts the checksum
basic_config_frame_long(lidar_info) ==
    LET body == <<SYNC, lidar_info.product_line, lidar_info.lidar_id, MODE_CF, 16,
                  0, 2, 237>>
    IN  BV(body \o <<checksum(body)>>, 0)

\* parse_get, BASIC_CONFIG: the command frame for the device
basic_config_frame(lidar_info) ==
    LET data == <<237>>
        body == <<SYNC, lidar_info.product_line, lidar_info.lidar_id, MODE_CF, 16,
                  Len(data) \div 256, Len(data) % 256>> \o data
    IN  BV(body \o <<checksum(body)>>, 0)

\* KanaviMobilityWsHandler::parse_get for the types that do not sleep
\* (LIDAR_LIST is the pair of steps LidarListClear, LidarListReply)
parse_get(request_message) ==
    IF request_message.type = "basic_config"
    THEN IF LiDARInfo_from_json(request_message.lidar_info).kind = "ok"
         THEN Ok([res |-> [ResponseMessage_new EXCEPT !.status = "none"],
                  raw_data |-> basic_config_frame(request_message.lidar_info)])
         ELSE Err("lidar_info is invalid")
    ELSE Err("not supported request type")

\* KanaviMobilityWsHandler::parse_set: the reply and the bytes for the device
parse_set(request_message) ==
    IF request_message.type = "register_lidar"
    THEN Ok([res |-> [ResponseMessage_new EXCEPT !.status = "success"],
             raw_data |-> Empty])
    ELSE Err("not supported request type")

\* what parse keeps when parse_get / parse_set fail: the initial reply
parse_fallback(r) ==
    IF r.kind = "ok" THEN r.value
    ELSE [res |-> ResponseMessage_new, raw_data |-> Empty]

\* KanaviMobilityWsHandler::parse
ws_parse(data) ==
    IF data.absent # {} THEN Err("invalid request")
    ELSE IF data.command = "get"
    THEN Ok([parse_fallback(parse_get(data)) EXCEPT
                !.res.lidar_info = data.lidar_info])
    ELSE IF data.command = "set"
    THEN Ok([parse_fallback(parse_set(data)) EXCEPT
                !.res.lidar_info = data.lidar_info])
    ELSE Err("not supported request command")

\* handle_socket 235-283 for one message: the reply sent (if any), the
\* envelope for the device (if any), or a panic of the session's task
NoOutcome == [reply |-> <<>>, env |-> <<>>, panic |-> FALSE]

on_parsed(ret) ==
    IF ret.kind # "ok" THEN NoOutcome
    ELSE LET res == ret.value.res
             raw_data == ret.value.raw_data
             ip == parse_ip(res.lidar_info.ip)
             cd == LiDARChannelData_new(
                       LiDARKey_new(ip.value, res.lidar_info.port), raw_data)
             reply == IF res.status # "none" THEN <<res>> ELSE <<>>
         IN  IF LiDARInfo_from_json(res.lidar_info).kind = "ok"
                /\ BLen(raw_data) > 0
             THEN IF ip.kind # "ok"
                  THEN [reply |-> reply, env |-> <<>>, panic |-> TRUE]
                  ELSE IF ~encode_into_slice(cd)
                  THEN [reply |-> reply, env |-> <<>>, panic |-> TRUE]
                  ELSE [reply |-> reply, env |-> <<cd>>, panic |-> FALSE]
             ELSE [reply |-> reply, env |-> <<>>, panic |-> FALSE]

on_message(msg) ==
    IF ~msg.json THEN NoOutcome ELSE on_parsed(ws_parse(msg))

\* a faulty removal, for comparison: the sink stays in the map
clients_remove_none(cl, s) == cl

\* a faulty removal, for comparison: every sink is dropped
clients_remove_all(cl, s) == {}

\* handle_socket 290-294: clients.remove(&client_id)
clients_remove(cl, s) == cl \ {s}

\* what set/register_lidar leaves in client_lidar_map: no handler writes it
register_lidar_map(map, client_id, lidar_info) == map

\* a faulty LIDAR_LIST, for comparison: the set is not cleared
lidar_infos_keep(infos) == infos

\* parse_get, LIDAR_LIST: lidar_infos.clear()
lidar_infos_clear(infos) == {}

\* a faulty LIDAR_LIST, for comparison: the guard of lidar_infos is kept
\* over the sleep, so the lock is free for task s only when no other session
\* sleeps
lidar_infos_free_kept(pc, s) == \A t \in DOMAIN pc \ {s} : pc[t] # "sleep"

\* lidar_infos.lock() of task s (0: the relay task).  Each guard is dropped in
\* the statement or block that took it (ws_handler.rs 96-99 before the
\* sleep, 106-112; server.rs 128), so between two steps no task holds it
lidar_infos_free(pc, s) == TRUE

\* parse_get, LIDAR_LIST after the sleep: the reply built from the set
lidar_list_reply(infos, req_lidar_info) ==
    [ResponseMessage_new EXCEPT !.status = "success", !.data = infos,
                                !.lidar_info = req_lidar_info]

-----------------------------------------------------------------------------
(* The UDP receive task: one datagram.                                     *)

Ev(op, key, sess, data, raw, res, info) ==
    [op |-> op, key |-> key, sess |-> sess, data |-> data, raw |-> raw,
     res |-> res, info |-> info]

Buffer(cdata, k) == IF k \in DOMAIN cdata THEN cdata[k] ELSE Empty

\* a faulty channel, for comparison: a send never waits
HasRoom_always(chan) == TRUE

\* mpsc::Sender::send with the channel open and room in it
HasRoom(chan) == Len(chan) < CHANNEL_CAP

\* a faulty receive, for comparison: the item is read but stays queued
mpsc_take_peek(chan) == chan

\* mpsc::Receiver::recv: what is left in the channel after the oldest item
\* has been taken
mpsc_take(chan) == Tail(chan)

\* The envelopes in flight, kept in behaviours that start with recording
\* on.  done: the frames handed off by the receive task and not yet taken by
\* the relay, oldest first.  issued: the <<session, envelope>> pairs handed
\* off by sessions and not yet taken by the send task, oldest first.  from:
\* the sessions whose envelopes are in the session-to-UDP channel.
NoHist == [on |-> FALSE, done |-> <<>>, issued |-> <<>>, from |-> <<>>]

\* a log without its i-th entry
Without(log, i) == SubSeq(log, 1, i - 1) \o SubSeq(log, i + 1, Len(log))

\* the place of the oldest entry of session s in a log of pairs (0: none)
Oldest(log, s) ==
    IF \E i \in DOMAIN log : log[i][1] = s
    THEN CHOOSE i \in DOMAIN log :
            /\ log[i][1] = s
            /\ \A j \in 1..(i - 1) : log[j][1] # s
    ELSE 0

LogDone(h, cd) == IF h.on THEN [h EXCEPT !.done = Append(@, cd)] ELSE h

\* the relay takes an envelope: the oldest frame in flight is accounted for
LogRelayed(h, cd) ==
    IF h.on /\ h.done # <<>> THEN [h EXCEPT !.done = Tail(@)] ELSE h

\* session s tries to hand cd to the session-to-UDP channel
LogIssued(h, s, cd) ==
    IF h.on THEN [h EXCEPT !.issued = Append(@, <<s, cd>>)] ELSE h

\* the envelope of session s enters the channel
LogEntered(h, s) == IF h.on THEN [h EXCEPT !.from = Append(@, s)] ELSE h

\* the UDP send task takes an envelope: the oldest command in flight of the
\* session it came from is accounted for
LogOut(h, cd) ==
    IF h.on /\ h.from # <<>>
    THEN [h EXCEPT !.issued = IF Oldest(@, Head(h.from)) = 0 THEN @
                              ELSE Without(@, Oldest(@, Head(h.from))),
                   !.from = Tail(@)]
    ELSE h

\* a faulty receive task, for comparison: it also holds the session map
\* while it waits for room in the channel
recv_holds_clients(pc) ==
    IF pc = "send" THEN {"channel_data", "clients"} ELSE {}

\* the locks the receive task holds while suspended: channel_data_guard is
\* taken at listener.rs 126 and lives to the end of the loop body, over the
\* send at 176
recv_holds(pc) == IF pc = "send" THEN {"channel_data"} ELSE {}

\* the locks the relay task takes for one envelope: lidar_infos for the
\* insert (server.rs 128), then clients and, inside it, client_lidar_map in
\* broadcast_message (341-342)
relay_locks == {"lidar_infos", "clients", "client_lidar_map"}

\* listener.rs 125-183: append, check, encode, send, clear.  The result is
\* the task's state after the datagram, up to its first suspension.
on_datagram(cdata, chan, alive, k, d) ==
    LET raw == IF k \in DOMAIN cdata THEN extend_from_slice(cdata[k], d) ELSE d
        cls == reassemble(raw)
        cd == LiDARChannelData_new(k, raw)
        st(cdata2, pc2, pend2, chan2, res) ==
            [channel_data |-> cdata2, recv_pc |-> pc2, pending |-> pend2,
             udp_to_ws |-> chan2, raw |-> raw, res |-> res]
    IN  IF cls \in {"empty", "short", "partial"}
        THEN st(Put(cdata, k, raw), "recv", <<>>, chan, cls)
        ELSE IF cls \in {"overrun", "badsync"}
        THEN st(Put(cdata, k, Empty), "recv", <<>>, chan, cls)
        ELSE IF ~encode_into_slice(cd)
        THEN st(Put(cdata, k, raw), "dead", <<>>, chan, "encode_panic")
        ELSE IF ~alive
        THEN st(Put(cdata, k, Empty), "recv", <<>>, chan, "closed")
        ELSE IF HasRoom(chan)
        THEN st(Put(cdata, k, Empty), "recv", <<>>, Append(chan, cd), "queued")
        ELSE st(Put(cdata, k, raw), "send", <<cd>>, chan, "suspended")

\* a faulty receive loop, for comparison: a datagram is taken at any time
recv_ready_always(pc) == TRUE

\* listener.rs 116-122: recv_from is awaited at the top of the loop only
recv_ready(pc) == pc = "recv"

UdpRecv(k, d) ==
    /\ recv_ready(recv_pc)
    /\ BLen(d) <= RECV_BUF
    /\ Representable(Buffer(channel_data, k), d)
    /\ LET e == on_datagram(channel_data, udp_to_ws, relay_alive, k, d)
       IN  /\ channel_data' = e.channel_data
           /\ recv_pc' = e.recv_pc
           /\ pending' = e.pending
           /\ udp_to_ws' = e.udp_to_ws
           /\ ev' = Ev("udp_recv", k, 0, d, e.raw, e.res, Null)
           /\ discarded' = IF e.res = "badsync" THEN discarded \cup {k}
                           ELSE discarded
           /\ hist' = IF e.res \in {"queued", "suspended"}
                      THEN LogDone(hist, LiDARChannelData_new(k, e.raw))
                      ELSE hist
    /\ sent' = {}
    /\ UNCHANGED <<ws_alive, relay_alive, clients, client_lidar_map, lidar_infos, next_id,
                   sess_pc, registered, window, ws_to_udp, ws_pending>>

\* the suspended send completes (or fails: receiver gone), then the clear
UdpSendResume ==
    /\ recv_pc = "send"
    /\ ~relay_alive \/ HasRoom(udp_to_ws)
    /\ LET cd == pending[1]
       IN  /\ udp_to_ws' = IF relay_alive THEN Append(udp_to_ws, cd) ELSE udp_to_ws
           /\ channel_data' = Put(channel_data, cd.key, Empty)
           /\ ev' = Ev("udp_resume", cd.key, 0, Empty, cd.raw_data,
                       IF relay_alive THEN "queued" ELSE "closed", Null)
    /\ pending' = <<>>
    /\ recv_pc' = "recv"
    /\ sent' = {}
    /\ UNCHANGED <<ws_alive, relay_alive, clients, client_lidar_map, lidar_infos, next_id,
                   sess_pc, registered, window, discarded,
                   ws_to_udp, ws_pending, hist>>

-----------------------------------------------------------------------------
(* The relay task of WsServer::start: one envelope.                        *)

Sleeping == {s \in DOMAIN sess_pc : sess_pc[s] = "sleep"}

\* serde_json Value::to_string of a JSON string: the text with its quotes
json_to_string(str) == "\"" \o str \o "\""

\* server.rs 122-133: the reply kept for the broadcast; Panic when the
\* lidar_info it holds is not a LiDARInfo (from_value(..).unwrap())
relay_ok(json) ==
    LET res == IF json_to_string(json.status) # "none"
               THEN json ELSE ResponseMessage_new
    IN  IF res.lidar_info = Null THEN Panic ELSE Ok(res)

relay_err(message) ==
    [ResponseMessage_new EXCEPT !.status = "error", !.message = message]

Relay ==
    /\ relay_alive
    /\ udp_to_ws # <<>>
    /\ \E checks \in BOOLEAN :
        LET cd == Head(udp_to_ws)
            ip == get_ip(cd.key)
            port == get_port(cd.key)
            p == parse(ip, port, cd.raw_data, checks)
            r == IF p.kind = "ok" THEN relay_ok(p.value) ELSE p
            res == IF r.kind = "ok" THEN r.value ELSE relay_err(r.message)
        IN  IF r.kind = "panic"
            THEN /\ relay_alive' = FALSE
                 /\ udp_to_ws' = <<>>
                 /\ sent' = {}
                 /\ ev' = Ev("relay", cd.key, 0, Empty, cd.raw_data, "panic", Null)
                 /\ UNCHANGED <<lidar_infos, window>>
            ELSE /\ relay_alive' = TRUE
                 /\ udp_to_ws' = mpsc_take(udp_to_ws)
                 /\ relay_locks \cap recv_holds(recv_pc) = {}
                 /\ r.kind = "ok" => lidar_infos_free(sess_pc, 0)
                 /\ lidar_infos' = IF r.kind = "ok"
                                   THEN lidar_infos \cup {res.lidar_info}
                                   ELSE lidar_infos
                 /\ window' = [s \in DOMAIN window |->
                                 IF r.kind = "ok" /\ s \in Sleeping
                                 THEN [window[s] EXCEPT
                                          !.seen = @ \cup {res.lidar_info}]
                                 ELSE window[s]]
                 /\ sent' = broadcast_message(clients, client_lidar_map, res)
                 /\ ev' = Ev("relay", cd.key, 0, Empty, cd.raw_data, r.kind, res)
    /\ hist' = LogRelayed(hist, Head(udp_to_ws))
    /\ UNCHANGED <<ws_alive, channel_data, recv_pc, pending, clients, client_lidar_map,
                   next_id, sess_pc, registered, discarded, ws_to_udp,
                   ws_pending>>

-----------------------------------------------------------------------------
(* Sessions: WsServer::handle_socket.                                      *)

NoWindow == [seen |-> {}, stale |-> {}]

Connect ==
    /\ ws_alive
    /\ next_id < MaxSessions
    /\ LET client_id == next_id + 1
       IN  /\ next_id' = client_id
           /\ clients' = clients \cup {client_id}
           /\ sess_pc' = [sess_pc EXCEPT ![client_id] = "idle"]
           /\ ev' = Ev("connect", <<>>, client_id, Empty, Empty, "", Null)
    /\ sent' = {}
    /\ UNCHANGED <<ws_alive, channel_data, recv_pc, pending, udp_to_ws, relay_alive,
                   client_lidar_map, lidar_infos, registered, window,
                   discarded,
                   ws_to_udp, ws_pending, hist>>

\* {lidar_info, command: "set", type: "register_lidar"}
RegisterLidar(s, lidar_info) ==
    /\ sess_pc[s] = "idle"
    /\ LET request_message ==
               [lidar_info |-> lidar_info, command |-> "set", type |-> "register_lidar"]
           r == parse_set(request_message)
           reply == [r.value.res EXCEPT !.lidar_info = request_message.lidar_info]
       IN  /\ r.kind = "ok"
           /\ sent' = IF reply.status # "none"
                      THEN send_message(clients, s, reply) ELSE {}
           /\ ev' = Ev("register_lidar", <<>>, s, Empty, Empty, reply.status, lidar_info)
    /\ client_lidar_map' = register_lidar_map(client_lidar_map, s, lidar_info)
    /\ registered' = [registered EXCEPT ![s] = lidar_info]
    /\ UNCHANGED <<ws_alive, channel_data, recv_pc, pending, udp_to_ws, relay_alive, clients,
                   lidar_infos, next_id, sess_pc, window, discarded,
                   ws_to_udp, ws_pending, hist>>

\* {command: "get", type: "lidar_list"}: the clear, then the sleep begins
LidarListClear(s) ==
    /\ sess_pc[s] = "idle"
    /\ lidar_infos_free(sess_pc, s)
    /\ lidar_infos' = lidar_infos_clear(lidar_infos)
    /\ sess_pc' = [sess_pc EXCEPT ![s] = "sleep"]
    /\ window' = [window EXCEPT ![s] = [seen |-> {}, stale |-> lidar_infos]]
    /\ sent' = {}
    /\ ev' = Ev("lidar_list", <<>>, s, Empty, Empty, "", Null)
    /\ UNCHANGED <<ws_alive, channel_data, recv_pc, pending, udp_to_ws, relay_alive, clients,
                   client_lidar_map, next_id, registered, discarded,
                   ws_to_udp, ws_pending, hist>>

\* the sleep is over: the reply is built from the set and sent to the session
\* (the requests of the model carry lidar_info null)
LidarListReply(s) ==
    /\ sess_pc[s] = "sleep"
    /\ lidar_infos_free(sess_pc, s)
    /\ LET reply == lidar_list_reply(lidar_infos, Null)
       IN  /\ sent' = IF reply.status # "none"
                      THEN send_message(clients, s, reply) ELSE {}
           /\ ev' = Ev("lidar_list_reply", <<>>, s, Empty, Empty, reply.status,
                       window[s])
    /\ sess_pc' = [sess_pc EXCEPT ![s] = "idle"]
    /\ window' = [window EXCEPT ![s] = NoWindow]
    /\ UNCHANGED <<ws_alive, channel_data, recv_pc, pending, udp_to_ws, relay_alive, clients,
                   client_lidar_map, lidar_infos, next_id, registered,
                   discarded,
                   ws_to_udp, ws_pending, hist>>

\* the socket closes: handle_socket removes the sink
Disconnect(s) ==
    /\ sess_pc[s] = "idle"
    /\ clients' = clients_remove(clients, s)
    /\ sess_pc' = [sess_pc EXCEPT ![s] = "closed"]
    /\ sent' = {}
    /\ ev' = Ev("disconnect", <<>>, s, Empty, Empty, "", Null)
    /\ UNCHANGED <<ws_alive, channel_data, recv_pc, pending, udp_to_ws, relay_alive,
                   client_lidar_map, lidar_infos, next_id, registered, window,
                   discarded,
                   ws_to_udp, ws_pending, hist>>

\* the requests that have steps of their own
HasOwnStep(msg) ==
    /\ msg.json
    /\ msg.absent = {}
    /\ \/ msg.command = "set" /\ msg.type = "register_lidar"
       \/ msg.command = "get" /\ msg.type = "lidar_list"

\* a faulty runtime, for comparison: a panic in one session task ends them all
session_panic_all(pc, s) == [c \in DOMAIN pc |-> "closed"]

\* server.rs 220, 287: a panic ends the task it happens in; join! returns
session_panic(pc, s) == [pc EXCEPT ![s] = "closed"]

\* SplitSink::send on the session's sink: the messages that arrive; none
\* when the peer has gone, and the error is logged (server.rs 360-362)
sink_send(open, msgs) == IF open THEN msgs ELSE {}

\* handle_socket 219-283: one text message, the session's sink open or not
Handle(s, msg, open) ==
    /\ sess_pc[s] = "idle"
    /\ ~HasOwnStep(msg)
    /\ LET o == on_message(msg)
           room == HasRoom(ws_to_udp)
       IN  /\ sent' = sink_send(open, UNION {send_message(clients, s, o.reply[i]) :
                                                i \in DOMAIN o.reply})
           /\ clients' = IF o.panic THEN clients_remove(clients, s) ELSE clients
           /\ sess_pc' = IF o.panic THEN session_panic(sess_pc, s)
                         ELSE [sess_pc EXCEPT ![s] =
                                  IF o.env # <<>> /\ ~room THEN "send" ELSE "idle"]
           /\ ws_to_udp' = IF o.env # <<>> /\ room
                           THEN Append(ws_to_udp, o.env[1]) ELSE ws_to_udp
           /\ ws_pending' = [ws_pending EXCEPT ![s] =
                                IF o.env # <<>> /\ ~room THEN o.env ELSE <<>>]
           /\ hist' = IF o.env = <<>> THEN hist
                      ELSE IF room
                      THEN LogEntered(LogIssued(hist, s, o.env[1]), s)
                      ELSE LogIssued(hist, s, o.env[1])
           /\ ev' = Ev("request", <<>>, s, Empty,
                       IF o.env # <<>> THEN o.env[1].raw_data ELSE Empty,
                       IF o.panic THEN "panic"
                       ELSE IF ~open /\ o.reply # <<>> THEN "send_failed"
                       ELSE IF o.env = <<>> THEN "done"
                       ELSE IF room THEN "queued" ELSE "suspended",
                       msg)
    /\ UNCHANGED <<ws_alive, channel_data, recv_pc, pending, udp_to_ws, relay_alive,
                   client_lidar_map, lidar_infos, next_id, registered, window,
                   discarded>>

\* a text message other than register_lidar and lidar_list
Request(s, msg) == Handle(s, msg, TRUE)

\* a message read after the peer has gone: the reply cannot be written
RequestClosedSink(s, msg) == Handle(s, msg, FALSE)

\* handle_socket 228-230: a binary message that is not UTF-8; the unwrap of
\* String::from_utf8 panics in the session's task
RequestBinary(s) ==
    /\ sess_pc[s] = "idle"
    /\ clients' = clients_remove(clients, s)
    /\ sess_pc' = session_panic(sess_pc, s)
    /\ sent' = {}
    /\ ev' = Ev("binary", <<>>, s, Empty, Empty, "panic", Null)
    /\ UNCHANGED <<ws_alive, channel_data, recv_pc, pending, udp_to_ws, relay_alive,
                   client_lidar_map, lidar_infos, next_id, registered, window,
                   discarded, ws_to_udp, ws_pending, hist>>

\* the session's suspended send to the UDP side completes
WsSendResume(s) ==
    /\ sess_pc[s] = "send"
    /\ HasRoom(ws_to_udp)
    /\ ws_to_udp' = Append(ws_to_udp, ws_pending[s][1])
    /\ ws_pending' = [ws_pending EXCEPT ![s] = <<>>]
    /\ sess_pc' = [sess_pc EXCEPT ![s] = "idle"]
    /\ hist' = LogEntered(hist, s)
    /\ sent' = {}
    /\ ev' = Ev("ws_resume", ws_pending[s][1].key, s, Empty,
                ws_pending[s][1].raw_data, "queued", Null)
    /\ UNCHANGED <<ws_alive, channel_data, recv_pc, pending, udp_to_ws, relay_alive,
                   clients, client_lidar_map, lidar_infos, next_id, registered,
                   window, discarded>>

\* a faulty send task, for comparison: the datagram goes to the key's address
multicast_addr_unicast(key) == [ip |-> get_ip(key), port |-> get_port(key)]

\* the address the send task writes to: the multicast group, the key's port
multicast_addr(key) == [ip |-> <<224, 0, 0, 5>>, port |-> get_port(key)]

\* listener.rs 196-221: the UDP send task takes one envelope and sends its
\* bytes as one datagram
UdpSend ==
    /\ ws_to_udp # <<>>
    /\ ws_to_udp' = mpsc_take(ws_to_udp)
    /\ hist' = LogOut(hist, Head(ws_to_udp))
    /\ sent' = {}
    /\ ev' = Ev("udp_send", Head(ws_to_udp).key, 0, Head(ws_to_udp).raw_data,
                Empty, "sent", multicast_addr(Head(ws_to_udp).key))
    /\ UNCHANGED <<ws_alive, channel_data, recv_pc, pending, udp_to_ws, relay_alive,
                   clients, client_lidar_map, lidar_infos, next_id, sess_pc,
                   registered, window, discarded, ws_pending>>

\* server.rs 162: TcpListener::bind(addr).await.unwrap() ends the task that
\* runs WsServer::start when the port cannot be bound (main.rs 27-43 returns
\* the first port when every probed port is taken), before any connection is
\* served.  The WsServer and its sender end with it; the relay task, spawned
\* at 111, goes on.
StartPanic ==
    /\ ws_alive
    /\ next_id = 0
    /\ ws_alive' = FALSE
    /\ sent' = {}
    /\ ev' = Ev("start", <<>>, 0, Empty, Empty, "panic", Null)
    /\ UNCHANGED <<channel_data, recv_pc, pending, udp_to_ws, relay_alive,
                   clients, client_lidar_map, lidar_infos, next_id, sess_pc,
                   registered, window, discarded, ws_to_udp, ws_pending, hist>>

\* the holders of a Sender of the session-to-UDP channel: the WsServer
\* (server.rs 49, 75), and through the shared AppState (103, 317) the relay
\* task (state_clone, 109) and every session task (State(state), 208)
ws_to_udp_senders ==
    (IF ws_alive THEN {<<"WsServer", 0>>} ELSE {})
      \cup (IF relay_alive THEN {<<"relay", 0>>} ELSE {})
      \cup {<<"session", s>> : s \in {t \in DOMAIN sess_pc :
                                        sess_pc[t] \in {"idle", "sleep", "send"}}}

\* rx.recv() yields None: every sender is dropped and the channel is empty
ws_to_udp_closed == ws_to_udp_senders = {} /\ ws_to_udp = <<>>

\* listener.rs 215-217: on None the send task logs "Channel closed"; the
\* arm has no break, so the loop calls rx.recv() again
UdpSendClosed ==
    /\ ws_to_udp_closed
    /\ sent' = {}
    /\ ev' = Ev("udp_send", <<>>, 0, Empty, Empty, "closed", Null)
    /\ UNCHANGED <<ws_alive, channel_data, recv_pc, pending, udp_to_ws,
                   relay_alive, clients, client_lidar_map, lidar_infos,
                   next_id, sess_pc, registered, window, discarded, ws_to_udp,
                   ws_pending, hist>>

-----------------------------------------------------------------------------
(* Inputs: device addresses, wire frames and datagrams.                    *)

IP1 == <<192, 168, 0, 10>>
IP2 == <<192, 168, 0, 11>>
PORT == 5000

K1 == LiDARKey_new(IP1, PORT)
K2 == LiDARKey_new(IP2, PORT)

\* a wire frame: header, payload (explicit bytes, then `pad` zero bytes) and
\* the checksum byte (the exclusive-or when the payload is explicit, else 0)
Frame(product_line, lidar_id, mode, param, payload, pad) ==
    LET n == Len(payload) + pad
        hdr == <<SYNC, product_line, lidar_id, mode, param, n \div 256, n % 256>>
    IN  IF pad = 0
        THEN BV(hdr \o payload \o <<checksum(hdr \o payload)>>, 0)
        ELSE BV(hdr \o payload, pad + 1)

FrameMotor(id) == Frame(0, id, MODE_CF, 99, <<5>>, 0)     \* MotorSpeed(5)
FrameShort == Frame(0, 1, MODE_CF, 99, <<>>, 0)           \* MotorSpeed, no payload
FrameBadParam == Frame(0, 1, MODE_CF, 153, <<>>, 0)       \* parameter 0x99
FrameDD == Frame(0, 1, MODE_DD, 0, <<>>, 801)             \* 400 samples, channel 0
FrameBig == Frame(0, 1, MODE_DD, 0, <<>>, 4096)           \* length field 0x1000
FrameNak == Frame(0, 1, MODE_NAK, 0, <<>>, 0)             \* length field 0
FrameMax == Frame(0, 1, MODE_DD, 0, <<>>, 65535)          \* length field 0xFFFF
Garbage == BV(<<1, 2>>, 0)
Flush == BV(<<>>, RECV_BUF)

IdA == LiDARInfo_new(IP1, PORT, 0, 1)
IdB == LiDARInfo_new(IP1, PORT, 0, 2)
Identities == {IdA, IdB}

Sessions == 1..MaxSessions

\* routing: whole frames of two device ids from one address
SysKeys == {K1}
SysDatagrams == {FrameMotor(1), FrameMotor(2)}

\* decoding: frames that decode, fail with an error value, or fault
DecodeDatagrams == {FrameMotor(1), FrameShort, FrameBadParam}

\* reassembly: frames cut into datagrams, and stray datagrams
FramesR == {FrameMotor(1), FrameNak, FrameDD, FrameBig, FrameMax}

Cuts(F) ==
    IF F = FrameMotor(1) THEN 1..BLen(F)
    ELSE IF F = FrameNak THEN {3, BLen(F)}
    ELSE IF F = FrameDD THEN {HEADER_LEN, 400, BLen(F)}
    ELSE {HEADER_LEN, 4000, BLen(F)}

IsPrefix(b, F) == BLen(b) <= BLen(F) /\ b = Slice(F, 0, BLen(b))

Stray == {Garbage, FrameMotor(1), Empty, Flush}

\* the datagrams a device may send next, given what its buffer holds: the
\* next piece of a frame in flight, or a stray datagram
Pieces(b) ==
    UNION {{Slice(F, BLen(b), j) : j \in {c \in Cuts(F) : c > BLen(b)}} :
              F \in {G \in FramesR : IsPrefix(b, G)}}
    \cup (IF \E F \in FramesR : IsPrefix(b, F) THEN Stray ELSE {Flush})

K2Datagrams == {FrameMotor(1), Garbage}

\* session requests: a second address, an identity whose address is not
\* dotted decimal, and messages of every shape handle_socket tells apart
IdC == LiDARInfo_new(IP2, PORT, 0, 1)
IdBadIp == [IdA EXCEPT !.ip = "lidar-1"]

BasicConfig(lidar_info) == Req(lidar_info, "get", "basic_config")

ReqMessages ==
    {BasicConfig(IdB), BasicConfig(IdC),
     BasicConfig(Null), BasicConfig(IdBadIp),
     Req(IdA, "get", "reboot"), Req(IdA, "set", "reboot"),
     Req(IdA, "del", "basic_config"),
     ReqWithout("lidar_info"), ReqWithout("command"), ReqWithout("type"),
     NotJson}

Init ==
    /\ channel_data = <<>>
    /\ recv_pc = "recv"
    /\ pending = <<>>
    /\ udp_to_ws = <<>>
    /\ relay_alive = TRUE
    /\ ws_alive = TRUE
    /\ clients = {}
    /\ client_lidar_map = <<>>
    /\ lidar_infos = {}
    /\ next_id = 0
    /\ sess_pc = [s \in Sessions |-> "none"]
    /\ registered = [s \in Sessions |-> Null]
    /\ window = [s \in Sessions |-> NoWindow]
    /\ discarded = {}
    /\ ws_to_udp = <<>>
    /\ ws_pending = [s \in Sessions |-> <<>>]
    /\ hist = NoHist
    /\ sent = {}
    /\ ev = Ev("init", <<>>, 0, Empty, Empty, "", Null)

Next ==
    \/ \E k \in SysKeys, d \in SysDatagrams : UdpRecv(k, d)
    \/ UdpSendResume
    \/ Relay
    \/ Connect
    \/ \E s \in Sessions, i \in Identities : RegisterLidar(s, i)
    \/ \E s \in Sessions : Disconnect(s)

Spec == Init /\ [][Next]_vars

NextList ==
    \/ \E k \in SysKeys, d \in SysDatagrams : UdpRecv(k, d)
    \/ UdpSendResume
    \/ Relay
    \/ Connect
    \/ \E s \in Sessions : LidarListClear(s)
    \/ \E s \in Sessions : LidarListReply(s)

SpecList == Init /\ [][NextList]_vars

NextDecode ==
    \/ \E k \in SysKeys, d \in DecodeDatagrams : UdpRecv(k, d)
    \/ UdpSendResume
    \/ Relay
    \/ Connect
    \/ \E s \in Sessions, i \in {IdA} : RegisterLidar(s, i)

SpecDecode == Init /\ [][NextDecode]_vars

NextReasm ==
    \/ \E d \in Pieces(Buffer(channel_data, K1)) : UdpRecv(K1, d)
    \/ \E d \in K2Datagrams : UdpRecv(K2, d)
    \/ UdpSendResume
    \/ Relay

SpecReasm == Init /\ [][NextReasm]_vars

NextReq ==
    \/ Connect
    \/ \E s \in Sessions, i \in {IdA} : RegisterLidar(s, i)
    \/ \E s \in Sessions, msg \in ReqMessages : Request(s, msg)
    \/ \E s \in Sessions : WsSendResume(s)
    \/ UdpSend
    \/ \E s \in Sessions : Disconnect(s)

SpecReq == Init /\ [][NextReq]_vars

\* commands for devices of two addresses and two ports
IdP == LiDARInfo_new(IP2, PORT + 1, 0, 1)
OutMessages == {BasicConfig(IdB), BasicConfig(IdC), BasicConfig(IdP)}

NextOut ==
    \/ Connect
    \/ \E s \in Sessions, msg \in OutMessages : Request(s, msg)
    \/ \E s \in Sessions : WsSendResume(s)
    \/ UdpSend

SpecOut == Init /\ [][NextOut]_vars

\* a frame whole or in two datagrams, while sessions come and go: what the
\* device sends next, given what its buffer holds
DiscPieces(b) ==
    IF BLen(b) = 0
    THEN {FrameMotor(1), Slice(FrameMotor(1), 0, 3)}
    ELSE {Slice(FrameMotor(1), BLen(b), BLen(FrameMotor(1)))}

NextDisc ==
    \/ \E d \in DiscPieces(Buffer(channel_data, K1)) : UdpRecv(K1, d)
    \/ UdpSendResume
    \/ Relay
    \/ Connect
    \/ \E s \in Sessions : RegisterLidar(s, IdA)
    \/ \E s \in Sessions : Disconnect(s)

SpecDisc == Init /\ [][NextDisc]_vars

\* sessions that fail, beside sessions and devices that go on
FailMessages == {BasicConfig(IdBadIp), BasicConfig(IdB), Req(IdA, "get", "reboot")}

NextFail ==
    \/ \E d \in DiscPieces(Buffer(channel_data, K1)) : UdpRecv(K1, d)
    \/ UdpSendResume
    \/ Relay
    \/ Connect
    \/ \E s \in Sessions : RegisterLidar(s, IdA)
    \/ \E s \in Sessions, msg \in FailMessages : Request(s, msg)
    \/ \E s \in Sessions : RequestClosedSink(s, Req(IdA, "get", "reboot"))
    \/ \E s \in Sessions : RequestBinary(s)
    \/ \E s \in Sessions : WsSendResume(s)
    \/ UdpSend

SpecFail == Init /\ [][NextFail]_vars

\* the set of known devices: frames of two addresses that decode, a frame
\* that is rejected and datagrams that are no frame, beside the list
\* requests of one session
KnownDatagrams == {FrameMotor(1), FrameBadParam, Garbage}

NextKnown ==
    \/ \E d \in KnownDatagrams : UdpRecv(K1, d)
    \/ UdpRecv(K2, FrameMotor(1))
    \/ UdpSendResume
    \/ Relay
    \/ Connect
    \/ LidarListClear(1)
    \/ LidarListReply(1)

SpecKnown == Init /\ [][NextKnown]_vars

\* list requests beside frames of one device and the requests of other
\* sessions
NextSleep ==
    \/ UdpRecv(K1, FrameMotor(1))
    \/ UdpSendResume
    \/ Relay
    \/ Connect
    \/ RegisterLidar(2, IdA)
    \/ LidarListClear(1)
    \/ LidarListReply(1)
    \/ LidarListClear(2)
    \/ LidarListReply(2)

SpecSleep == Init /\ [][NextSleep]_vars

\* the four kinds of task together: frames that decode and one that ends
\* the relay, commands for a device, list requests
NextLive ==
    \/ \E d \in {FrameMotor(1), FrameShort} : UdpRecv(K1, d)
    \/ UdpSendResume
    \/ Relay
    \/ Connect
    \/ \E s \in Sessions : Request(s, BasicConfig(IdB))
    \/ \E s \in Sessions : WsSendResume(s)
    \/ UdpSend
    \/ LidarListClear(1)
    \/ LidarListReply(1)

SpecLive == Init /\ [][NextLive]_vars

\* the server task fails at its bind, frames arrive, one of them ends the
\* relay, and the send task reads its channel
NextClosed ==
    \/ \E d \in {FrameMotor(1), FrameShort} : UdpRecv(K1, d)
    \/ UdpSendResume
    \/ Relay
    \/ StartPanic
    \/ Connect
    \/ \E s \in Sessions : Request(s, BasicConfig(IdB))
    \/ \E s \in Sessions : WsSendResume(s)
    \/ UdpSend
    \/ UdpSendClosed

SpecClosed == Init /\ [][NextClosed]_vars

-----------------------------------------------------------------------------
(* The pure functions, each applied once to an input drawn at the start.   *)

\* everything but the last step is as after construction
Quiet ==
    /\ channel_data = <<>>
    /\ recv_pc = "recv"
    /\ pending = <<>>
    /\ udp_to_ws = <<>>
    /\ relay_alive = TRUE
    /\ ws_alive = TRUE
    /\ clients = {}
    /\ client_lidar_map = <<>>
    /\ lidar_infos = {}
    /\ next_id = 0
    /\ sess_pc = [s \in Sessions |-> "none"]
    /\ registered = [s \in Sessions |-> Null]
    /\ window = [s \in Sessions |-> NoWindow]
    /\ discarded = {}
    /\ ws_to_udp = <<>>
    /\ ws_pending = [s \in Sessions |-> <<>>]
    /\ hist = NoHist
    /\ sent = {}

Still ==
    UNCHANGED <<ws_alive, channel_data, recv_pc, pending, udp_to_ws, relay_alive, clients,
                client_lidar_map, lidar_infos, next_id, sess_pc, registered,
                window, discarded, ws_to_udp, ws_pending, hist, sent>>

Input(x) == Ev("input", <<>>, 0, Empty, Empty, "", x)

U8 == 0..255

\* the encoder: parse_get of a basic_config request, for every product line
\* and device id
InitEnc ==
    /\ Quiet
    /\ \E product_line \in U8, lidar_id \in U8 :
          ev = Input(LiDARInfo_new(IP1, PORT, product_line, lidar_id))

Encode ==
    /\ ev.op = "input"
    /\ ev' = Ev("parse_get", <<>>, 0, Empty,
                parse_get(BasicConfig(ev.info)).value.raw_data,
                parse_get(BasicConfig(ev.info)).value.res.status, ev.info)
    /\ Still

SpecEnc == InitEnc /\ [][Encode]_vars

\* the decoder: KanaviUDPHandler::parse applied to one complete frame from
\* IP1:PORT, built with or without overflow checks
FrameInput(frame, checks) == Input([data |-> frame, checks |-> checks])

Decode ==
    /\ ev.op = "input"
    /\ ev' = Ev("parse", K1, 0, ev.info.data, Empty,
                parse(IP1, PORT, ev.info.data, ev.info.checks).kind,
                parse(IP1, PORT, ev.info.data, ev.info.checks))
    /\ Still

\* point-cloud frames: every product line, channel parameters with any high
\* nibble, payloads of 400, 480 and 1080 samples and one too short
DdParams == {0, 1, 2, 3, 4, 15, 16, 33, 242, 243}
DdSamples == {399, 400, 480, 1080}

InitDd ==
    /\ Quiet
    /\ \E product_line \in U8, param \in DdParams, n \in DdSamples :
          ev = FrameInput(Frame(product_line, 1, MODE_DD, param, <<>>, 2 * n + 1), TRUE)

SpecDd == InitDd /\ [][Decode]_vars

\* motor-speed frames [FA, product line, id, CF, 63, 00, 01, v, c]: every
\* speed v, with the last byte c right (the exclusive-or) or wrong
MotorLines == {0, 2, 7, 255}
MotorIds == {0, 1, 255}
MotorSums(hdr) == {0, 83, 255, checksum(hdr)}

InitMotor ==
    /\ Quiet
    /\ \E product_line \in MotorLines, lidar_id \in MotorIds, v \in U8 :
          \E c \in MotorSums(<<SYNC, product_line, lidar_id, MODE_CF, 99, 0, 1, v>>) :
             ev = FrameInput(BV(<<SYNC, product_line, lidar_id, MODE_CF, 99,
                                  0, 1, v, c>>, 0), TRUE)

SpecMotor == InitMotor /\ [][Decode]_vars

\* configuration frames: every parameter byte, with payloads that are empty,
\* too short for some records, long enough for each, and all zero
CfPayloads ==
    {BV(<<>>, 0), BV(<<9>>, 0), BV(<<1, 2>>, 0),
     BV(<<1, 2, 3, 4, 5, 6, 7, 8, 9, 10, 11, 12, 13, 0>>, 0),
     BV(<<1, 2, 3, 4, 5, 6, 7, 8, 9, 10, 11, 12, 13, 14, 15, 16, 17, 18, 19, 20>>, 0),
     BV(<<>>, 32)}

InitCf ==
    /\ Quiet
    /\ \E product_line \in {0, 7}, param \in U8, payload \in CfPayloads :
          ev = FrameInput(Frame(product_line, 1, MODE_CF, param,
                                payload.head, payload.pad), TRUE)

SpecCf == InitCf /\ [][Decode]_vars

\* complete frames of every mode byte, with parameters that are channels,
\* configuration parameters or neither, and payloads from none to a sweep
ModeParams == {0, 1, 3, 18, 99, 153, 245}
ModePayloads == {BV(<<>>, 0), BV(<<9>>, 0), BV(<<>>, 801), BV(<<>>, 2161)}

InitMode ==
    /\ Quiet
    /\ \E product_line \in {0, 2, 7}, mode \in U8, param \in ModeParams,
           payload \in ModePayloads :
          ev = FrameInput(Frame(product_line, 1, mode, param,
                                payload.head, payload.pad), TRUE)

SpecMode == InitMode /\ [][Decode]_vars

\* the key of two (address, port) pairs: octets and ports at the ends of
\* their ranges and next to them
KeyIps == {<<a, b, c, d>> : a \in {0, 255}, b \in {0, 255},
                            c \in {0, 1, 255}, d \in {0, 1, 255}}
KeyPorts == {0, 1, 256, PORT, 65535}
KeyPairs == {[ip |-> i, port |-> q] : i \in KeyIps, q \in KeyPorts}

InitKey ==
    /\ Quiet
    /\ \E a \in KeyPairs, b \in KeyPairs : ev = Input([a |-> a, b |-> b])

MakeKeys ==
    /\ ev.op = "input"
    /\ ev' = Ev("key", LiDARKey_new(ev.info.a.ip, ev.info.a.port), 0, Empty, Empty, "",
                [a |-> ev.info.a, b |-> ev.info.b,
                 key_b |-> LiDARKey_new(ev.info.b.ip, ev.info.b.port),
                 ip |-> get_ip(LiDARKey_new(ev.info.a.ip, ev.info.a.port)),
                 port |-> get_port(LiDARKey_new(ev.info.a.ip, ev.info.a.port))])
    /\ Still

SpecKey == InitKey /\ [][MakeKeys]_vars

\* UserArea::parse_coordinate on every pair of bytes, built with or without
\* overflow checks
InitCoord ==
    /\ Quiet
    /\ \E b0 \in U8, b1 \in U8, checks \in BOOLEAN :
          ev = Input([b0 |-> b0, b1 |-> b1, checks |-> checks])

ParseCoordinate ==
    /\ ev.op = "input"
    /\ ev' = Ev("parse_coordinate", <<>>, 0, Empty, Empty,
                parse_coordinate(ev.info.b0, ev.info.b1, ev.info.checks).kind,
                [b0 |-> ev.info.b0, b1 |-> ev.info.b1, checks |-> ev.info.checks,
                 value |-> parse_coordinate(ev.info.b0, ev.info.b1,
                                            ev.info.checks).value])
    /\ Still

SpecCoord == InitCoord /\ [][ParseCoordinate]_vars

\* the encoder's frame given to the decoder: parse_get of a basic_config
\* request, then KanaviUDPHandler::parse of its raw_data
InitRound ==
    /\ Quiet
    /\ \E product_line \in U8, lidar_id \in {0, 1, 255} :
          ev = Input(LiDARInfo_new(IP1, PORT, product_line, lidar_id))

EncodeDecode ==
    /\ ev.op = "input"
    /\ LET frame == parse_get(BasicConfig(ev.info)).value.raw_data
           r == parse(IP1, PORT, frame, TRUE)
       IN  ev' = Ev("round_trip", K1, 0, frame, Empty, r.kind,
                    [sent |-> ev.info, kind |-> r.kind, value |-> r.value,
                     message |-> r.message])
    /\ Still

SpecRound == InitRound /\ [][EncodeDecode]_vars

\* basic-configuration frames with one user area of n points, n any byte:
\* twelve fixed fields, area_count 1, the point count n and n * 4 coordinate
\* bytes, decoded with or without overflow checks
InitArea ==
    /\ Quiet
    /\ \E n \in U8, checks \in BOOLEAN :
          ev = FrameInput(Frame(0, 1, MODE_CF, 17,
                                <<0, 0, 0, 0, 0, 0, 0, 0, 0, 0, 0, 0, 0, 1, n>>,
                                4 * n), checks)

SpecArea == InitArea /\ [][Decode]_vars

\* both directions of the bridge, with the envelopes in flight recorded
InitBridge ==
    /\ channel_data = <<>>
    /\ recv_pc = "recv"
    /\ pending = <<>>
    /\ udp_to_ws = <<>>
    /\ relay_alive = TRUE
    /\ ws_alive = TRUE
    /\ clients = {}
    /\ client_lidar_map = <<>>
    /\ lidar_infos = {}
    /\ next_id = 0
    /\ sess_pc = [s \in Sessions |-> "none"]
    /\ registered = [s \in Sessions |-> Null]
    /\ window = [s \in Sessions |-> NoWindow]
    /\ discarded = {}
    /\ ws_to_udp = <<>>
    /\ ws_pending = [s \in Sessions |-> <<>>]
    /\ hist = [NoHist EXCEPT !.on = TRUE]
    /\ sent = {}
    /\ ev = Ev("init", <<>>, 0, Empty, Empty, "", Null)

BridgeDatagrams == {FrameMotor(1), FrameShort}
BridgeMessages == {BasicConfig(IdA), BasicConfig(IdB)}

NextBridge ==
    \/ \E d \in BridgeDatagrams : UdpRecv(K1, d)
    \/ UdpSendResume
    \/ Relay
    \/ Connect
    \/ \E s \in Sessions, msg \in BridgeMessages : Request(s, msg)
    \/ \E s \in Sessions : WsSendResume(s)
    \/ UdpSend

SpecBridge == InitBridge /\ [][NextBridge]_vars

-----------------------------------------------------------------------------
(* Properties.  They are stated over the bytes, the channel and the        *)
(* messages of a step, with their own reading of the frame layout.         *)

\* a buffer that holds exactly one frame: 0xFA first and L + 8 bytes, L the
\* big-endian length field at offsets 5 and 6
WholeFrame(raw) ==
    /\ BLen(raw) >= 7
    /\ At(raw, 0) = 250
    /\ BLen(raw) = At(raw, 5) * 256 + At(raw, 6) + 8

\* a buffer with more bytes than the frame at its head declares
Overrun(raw) ==
    /\ BLen(raw) >= 7
    /\ At(raw, 0) = 250
    /\ BLen(raw) > At(raw, 5) * 256 + At(raw, 6) + 8

\* a non-empty buffer whose first byte is not 0xFA
BadSync(raw) == BLen(raw) > 0 /\ At(raw, 0) # 250

\* the bytes of b followed by the bytes of d
Joined(b, d) == BV(b.head \o d.head, b.pad + d.pad)

Envelope(key, raw) == [key |-> key, raw_data |-> raw]

\* outcomes of a receive step in which the buffer went to the codec
HandedToCodec == {"encode_panic", "closed", "queued", "suspended"}

Pushes == {m \in sent : m.kind = "push"}

\* the receive step ev' leaves the key's buffer, the channel and the task
\* as a single datagram d on a key never seen before would
AsOnFreshKey(d) ==
    LET w == on_datagram(<<>>, udp_to_ws, relay_alive, ev'.key, d)
    IN  /\ ev'.res = w.res
        /\ udp_to_ws' = w.udp_to_ws
        /\ pending' = w.pending
        /\ recv_pc' = w.recv_pc
        /\ Buffer(channel_data', ev'.key) = Buffer(w.channel_data, ev'.key)

\* the receive step ev' drops the key's buffer and dispatches nothing
DropsBuffer ==
    /\ Buffer(channel_data', ev'.key) = Empty
    /\ udp_to_ws' = udp_to_ws
    /\ pending' = pending
    /\ recv_pc' = "recv"

C2_RegisteredReceives ==
    (ev.op = "relay" /\ ev.res = "ok") =>
        \A s \in clients :
            registered[s] = ev.info.lidar_info =>
                \E m \in Pushes : m.to = s /\ m.msg = ev.info

\* C3, as the claim states it: after set/register_lidar the session has been
\* replied "success" and its registry entry equals the request's lidar_info.
C3_RegisterRecorded ==
    ev.op = "register_lidar" =>
        /\ \E m \in sent : /\ m.to = ev.sess
                           /\ m.msg.status = "success"
                           /\ m.msg.lidar_info = ev.info
        /\ ev.sess \in DOMAIN client_lidar_map
        /\ client_lidar_map[ev.sess] = ev.info

\* C4: the receive task hands a key's buffer to the codec only when the
\* buffer holds exactly the L + 8 bytes its header declares; every envelope
\* in the channel or waiting to enter it is such a buffer.
C4_NoEarlyHandOff ==
    /\ (ev.op = "udp_recv" /\ ev.res \in HandedToCodec) => WholeFrame(ev.raw)
    /\ \A i \in 1..Len(udp_to_ws) : WholeFrame(udp_to_ws[i].raw_data)
    /\ \A i \in 1..Len(pending) : WholeFrame(pending[i].raw_data)

\* C4 witness: the 809-byte frame was queued by the datagram that brought
\* its last bytes, the earlier ones having been held back.
C4_Witness ==
    /\ ev.op = "udp_recv" /\ ev.res = "queued"
    /\ ev.raw = FrameDD
    /\ BLen(ev.data) < BLen(ev.raw)

\* C5, as the claim states it: whenever a key's buffer, begun with 0xFA,
\* reaches exactly L + 8 bytes, one envelope with those bytes and that key
\* goes to the channel (at once, or when the suspended send completes) and
\* the key's buffer is empty once it has.
C5_EveryFrameDispatched ==
    /\ (ev.op = "udp_recv" /\ WholeFrame(ev.raw)) =>
          \/ /\ ev.res = "queued"
             /\ udp_to_ws # <<>>
             /\ udp_to_ws[Len(udp_to_ws)] = Envelope(ev.key, ev.raw)
             /\ Buffer(channel_data, ev.key) = Empty
          \/ /\ ev.res = "suspended"
             /\ pending = <<Envelope(ev.key, ev.raw)>>
    /\ ev.op = "udp_resume" =>
          /\ ev.res = "queued"
          /\ udp_to_ws # <<>>
          /\ udp_to_ws[Len(udp_to_ws)] = Envelope(ev.key, ev.raw)
          /\ Buffer(channel_data, ev.key) = Empty

\* C6: a receive step that leaves a non-empty buffer not begun with 0xFA
\* drops that buffer and dispatches nothing; and a datagram that then
\* arrives on the emptied buffer of such a key is handled as on a key never
\* seen before, so a valid frame is reassembled and sent on as usual.
C6_BadSyncDiscarded ==
    [][/\ (ev'.op = "udp_recv" /\ BadSync(ev'.raw)) => DropsBuffer
       /\ (/\ ev'.op = "udp_recv"
           /\ ev'.key \in discarded
           /\ Buffer(channel_data, ev'.key) = Empty) => AsOnFreshKey(ev'.data)
      ]_vars

\* C6 witness: a key whose buffer had been dropped for its first byte has
\* just had a valid frame queued for decoding.
C6_Witness ==
    /\ ev.op = "udp_recv" /\ ev.res = "queued"
    /\ ev.key \in discarded
    /\ ev.raw = FrameMotor(1)
    /\ Buffer(channel_data, ev.key) = Empty

\* C7: a receive step that leaves a buffer longer than the L + 8 bytes its
\* header declares drops the whole buffer, the bytes after the frame
\* included, and dispatches nothing.
C7_OverrunDiscarded ==
    [][(ev'.op = "udp_recv" /\ Overrun(ev'.raw)) => DropsBuffer]_vars

\* C7 witness: a whole valid frame arrived behind a frame in flight; the
\* buffer overran and was emptied, the valid frame with it.
C7_Witness ==
    /\ ev.op = "udp_recv" /\ ev.res = "overrun"
    /\ Overrun(ev.raw)
    /\ ev.data = FrameMotor(1)
    /\ Buffer(channel_data, ev.key) = Empty
    /\ udp_to_ws = <<>>

\* C8: when the bytes buffered for a key and the datagram just received
\* make up exactly one frame, the step ends as a single datagram carrying
\* the whole frame would: the same envelope dispatched, the same buffer.
C8_SplitInvariance ==
    [][(/\ ev'.op = "udp_recv"
        /\ WholeFrame(Joined(Buffer(channel_data, ev'.key), ev'.data)))
          => AsOnFreshKey(Joined(Buffer(channel_data, ev'.key), ev'.data))
      ]_vars

\* C8 witness: the last byte of a frame arrived alone in a datagram and the
\* whole frame was queued, leaving the buffer empty.
C8_Witness ==
    /\ ev.op = "udp_recv" /\ ev.res = "queued"
    /\ BLen(ev.data) = 1
    /\ ev.raw = FrameMotor(1)
    /\ udp_to_ws = <<Envelope(ev.key, FrameMotor(1))>>
    /\ Buffer(channel_data, ev.key) = Empty

\* C9, as the claim states it: a frame that fails to decode costs only
\* itself; the relay task lives on, and no later valid frame is dropped at
\* the channel.
C9_DecodeFailureIsolated ==
    /\ (ev.op = "relay" /\ ev.res # "ok") => relay_alive
    /\ (ev.op \in {"udp_recv", "udp_resume"} /\ ev.raw = FrameMotor(1)) =>
            ev.res # "closed"

\* C10: the reply to get/lidar_list goes to the requesting session with
\* status "success", and lists only identities decoded between that
\* session's clear and the reply; none when no frame was decoded.
C10_ListWithinWindow ==
    ev.op = "lidar_list_reply" =>
        /\ sent # {}
        /\ \A m \in sent : /\ m.to = ev.sess
                           /\ m.msg.status = "success"
                           /\ m.msg.data \subseteq ev.info.seen

\* C10 witness: identity A was known before the clear, B was decoded during
\* the sleep, and the reply lists B alone.
C10_Witness ==
    /\ ev.op = "lidar_list_reply"
    /\ IdA \in ev.info.stale
    /\ \E m \in sent : m.to = ev.sess /\ m.msg.data = {IdB}

\* the identities whose four fields are there and whose address is dotted
\* decimal, with the address and port they name
WellFormed(li) ==
    /\ DOMAIN li = {"ip", "port", "product_line", "lidar_id"}
    /\ li.ip \in {"192.168.0.10", "192.168.0.11"}

AddressOf(li) ==
    IF li.ip = "192.168.0.10" THEN <<192, 168, 0, 10>> ELSE <<192, 168, 0, 11>>

IsRequest(e, command, type) ==
    /\ e.op = "request"
    /\ e.info.json
    /\ e.info.absent = {}
    /\ e.info.command = command
    /\ e.info.type = type

\* the basic-configuration query frame, read byte by byte
IsQueryFrame(raw, li) ==
    /\ BLen(raw) = 9
    /\ At(raw, 0) = 250
    /\ At(raw, 1) = li.product_line
    /\ At(raw, 2) = li.lidar_id
    /\ At(raw, 3) = 207
    /\ At(raw, 4) = 16
    /\ At(raw, 5) * 256 + At(raw, 6) = BLen(raw) - 8
    /\ At(raw, 8) = xor(xor(xor(xor(250, li.product_line), li.lidar_id), 207),
                        xor(xor(xor(16, At(raw, 5)), At(raw, 6)), At(raw, 7)))

\* the envelope a query for li must produce
QueryEnvelope(cd, li) ==
    /\ get_ip(cd.key) = AddressOf(li)
    /\ get_port(cd.key) = li.port
    /\ IsQueryFrame(cd.raw_data, li)

\* C11: a get / basic_config request with a well-formed lidar_info hands
\* exactly one envelope to the session-to-UDP channel (at once, or as the
\* session's one suspended send while the slot is taken), keyed by the
\* address and port of lidar_info and carrying the frame FA, product line,
\* device id, CF, 10, two-byte length, payload, checksum with the length
\* field equal to the payload size; nothing is sent to the session.
C11_QueryHandedOff ==
    [][(IsRequest(ev', "get", "basic_config") /\ WellFormed(ev'.info.lidar_info))
         => /\ sent' = {}
            /\ ev'.res \in {"queued", "suspended"}
            /\ ev'.res = "queued" =>
                  /\ Len(ws_to_udp') = Len(ws_to_udp) + 1
                  /\ SubSeq(ws_to_udp', 1, Len(ws_to_udp)) = ws_to_udp
                  /\ QueryEnvelope(ws_to_udp'[Len(ws_to_udp')], ev'.info.lidar_info)
                  /\ ws_pending'[ev'.sess] = <<>>
            /\ ev'.res = "suspended" =>
                  /\ ws_to_udp' = ws_to_udp
                  /\ Len(ws_pending'[ev'.sess]) = 1
                  /\ QueryEnvelope(ws_pending'[ev'.sess][1], ev'.info.lidar_info)]_vars

C11_Witness ==
    /\ IsRequest(ev, "get", "basic_config")
    /\ WellFormed(ev.info.lidar_info)
    /\ ev.info.lidar_info.lidar_id = 2
    /\ ev.res = "queued"
    /\ ws_to_udp # <<>>

\* the replies of the last step to session c with the given status
RepliesTo(c, status) ==
    {m \in sent : m.kind = "reply" /\ m.to = c /\ m.msg.status = status}

StaysOpen(c) == c \in clients /\ sess_pc[c] # "closed"

\* C12, as the claim states it: a request with all its fields whose command
\* is neither get nor set, or whose type is not one the server knows, is
\* answered with status "error" and the connection stays open.
C12_UnsupportedAnswered ==
    (/\ ev.op = "request"
     /\ ev.info.json
     /\ ev.info.absent = {}
     /\ \/ ev.info.command \notin {"get", "set"}
        \/ ev.info.type \notin {"register_lidar", "lidar_list", "basic_config"})
    => /\ RepliesTo(ev.sess, "error") # {}
       /\ StaysOpen(ev.sess)

\* C13, as the claim states it: a message that is not JSON, or lacks one of
\* lidar_info, command, type, is answered with status "error" and a message
\* text, and the connection stays open.
C13_MalformedAnswered ==
    (ev.op = "request" /\ (~ev.info.json \/ ev.info.absent # {}))
    => /\ \E m \in RepliesTo(ev.sess, "error") : m.msg.message # ""
       /\ StaysOpen(ev.sess)

\* C14, as the claim states it: a get / basic_config request whose
\* lidar_info is not a well-formed identity hands no envelope to the
\* session-to-UDP channel and is answered with status "error".
C14_BadIdentityAnswered ==
    [][(IsRequest(ev', "get", "basic_config") /\ ~WellFormed(ev'.info.lidar_info))
         => /\ ws_to_udp' = ws_to_udp
            /\ ws_pending'[ev'.sess] = <<>>
            /\ \E m \in sent' : /\ m.kind = "reply"
                                /\ m.to = ev'.sess
                                /\ m.msg.status = "error"]_vars

\* C15, as the claim states it: every message sent to a session, reply or
\* pushed frame, has status "success", "error" or "none".
C15_StatusValues ==
    \A m \in sent : m.msg.status \in {"success", "error", "none"}

\* C16: a direct reply goes to the session that made the request and to no
\* other, whatever the other sessions have registered.
C16_ReplyToRequester ==
    \A m \in sent : m.kind = "reply" => m.to = ev.sess

C16_Witness ==
    /\ ev.op = "request"
    /\ \E m \in sent : m.kind = "reply" /\ m.to = ev.sess
    /\ \E c \in clients : c # ev.sess /\ registered[c] = ev.info.lidar_info

\* C17: when a session disconnects, its sink alone leaves the session map;
\* the set of known devices, every reassembly buffer, and every other
\* session's sink and subscription stay as they were.
C17_DisconnectFrame ==
    [][ev'.op = "disconnect"
         => /\ ev'.sess \in clients
            /\ ev'.sess \notin clients'
            /\ \A c \in Sessions \ {ev'.sess} : (c \in clients') = (c \in clients)
            /\ lidar_infos' = lidar_infos
            /\ channel_data' = channel_data
            /\ \A c \in Sessions \ {ev'.sess} :
                  /\ (c \in DOMAIN client_lidar_map') = (c \in DOMAIN client_lidar_map)
                  /\ c \in DOMAIN client_lidar_map =>
                        client_lidar_map'[c] = client_lidar_map[c]
                  /\ registered'[c] = registered[c]]_vars

C17_Witness ==
    /\ ev.op = "disconnect"
    /\ lidar_infos # {}
    /\ \E k \in DOMAIN channel_data : BLen(channel_data[k]) > 0
    /\ \E c \in clients : registered[c] # Null

\* the sessions whose send to the UDP side is suspended
Waiting == {c \in Sessions : ws_pending[c] # <<>>}

Of(log, c) ==
    LET mine == SelectSeq(log, LAMBDA x : x[1] = c)
    IN  [i \in 1..Len(mine) |-> mine[i][2]]

\* C19: in each direction envelopes are taken in the order they were handed
\* off, each once.  The envelope the relay takes is the oldest frame in
\* flight, and it is in flight no longer.  The envelope the UDP send task
\* sends is, for the session it came from, the oldest command of that
\* session in flight, and that command is in flight no longer; the others
\* keep their order.
C19_Fifo ==
    [][/\ ev'.op = "relay"
            => /\ hist.done # <<>>
               /\ Envelope(ev'.key, ev'.raw) = Head(hist.done)
               /\ hist'.done = Tail(hist.done)
       /\ ev'.op = "udp_send"
            => \E c \in Sessions :
                  /\ Of(hist.issued, c) # <<>>
                  /\ Envelope(ev'.key, ev'.data) = Head(Of(hist.issued, c))
                  /\ Of(hist'.issued, c) = Tail(Of(hist.issued, c))
                  /\ \A o \in Sessions \ {c} :
                        Of(hist'.issued, o) = Of(hist.issued, o)]_vars

\* a command of a session has been sent while a later, different command of
\* the same session waits, and two different frames are in flight
C19_Witness ==
    /\ ev.op = "udp_send"
    /\ \E c \in Sessions : /\ Of(hist.issued, c) # <<>>
                           /\ Of(hist.issued, c)[1].raw_data # ev.data
    /\ \A c \in Sessions : Len(Of(hist.issued, c)) <= 1
    /\ Len(hist.done) = 2
    /\ hist.done[1] # hist.done[2]

\* C20: the datagrams of a key are handled one at a time.  A datagram is
\* appended only when the handling of the one before is over: no hand-off is
\* suspended, and the buffer of the key holds no whole frame left from it.
\* While a hand-off is suspended the buffers change only by the clear that
\* ends it.
C20_OneAtATime ==
    [][/\ ev'.op = "udp_recv"
            => /\ recv_pc = "recv"
               /\ pending = <<>>
               /\ ~WholeFrame(Buffer(channel_data, ev'.key))
               /\ BLen(ev'.raw) =
                      BLen(Buffer(channel_data, ev'.key)) + BLen(ev'.data)
       /\ recv_pc = "send"
            => /\ ev'.op # "udp_recv"
               /\ channel_data' # channel_data
                     => /\ ev'.op = "udp_resume"
                        /\ recv_pc' = "recv"
                        /\ Buffer(channel_data', ev'.key) = Empty]_vars

C20_Witness ==
    /\ ev.op = "udp_resume"
    /\ ev.res = "queued"
    /\ recv_pc = "recv"
    /\ Buffer(channel_data, ev.key) = Empty
    /\ udp_to_ws = <<Envelope(ev.key, ev.raw)>>
    /\ \E k \in DOMAIN channel_data : k # ev.key /\ BLen(channel_data[k]) > 0

\* a step in which a session fails: its task panics, or its reply cannot be
\* written to its sink
Fails(e) == e.op \in {"request", "binary"} /\ e.res \in {"panic", "send_failed"}

\* C21: a failure of one session leaves every other session as it was
\* (sink, position, suspended send, subscription) and leaves the receive
\* task, the buffers, both channels' other contents and the relay task as
\* they were; requests of the sessions that remain are answered as before.
C21_FailureConfined ==
    [][/\ Fails(ev')
            => /\ \A c \in Sessions \ {ev'.sess} :
                     /\ (c \in clients') = (c \in clients)
                     /\ sess_pc'[c] = sess_pc[c]
                     /\ ws_pending'[c] = ws_pending[c]
                     /\ registered'[c] = registered[c]
               /\ client_lidar_map' = client_lidar_map
               /\ relay_alive' = relay_alive
               /\ recv_pc' = recv_pc
               /\ pending' = pending
               /\ channel_data' = channel_data
               /\ udp_to_ws' = udp_to_ws
               /\ ws_to_udp' = ws_to_udp
               /\ \A m \in sent' : m.to = ev'.sess
       /\ ev'.op = "register_lidar"
            => \E m \in sent' : m.to = ev'.sess /\ m.msg.status = "success"
       /\ (ev'.op = "request" /\ ev'.info = BasicConfig(IdB))
            => ev'.res \in {"queued", "suspended"}]_vars

\* a session is answered, and a frame relayed, after another has panicked
C21_Witness ==
    /\ ev.op = "register_lidar"
    /\ \E m \in sent : m.to = ev.sess /\ m.msg.status = "success"
    /\ \E c \in Sessions : sess_pc[c] = "closed"
    /\ relay_alive
    /\ recv_pc = "recv"
    /\ lidar_infos # {}

\* bit i of a byte, and the parity of bit i over the bytes of a vector
Bit(b, i) == (b \div (2 ^ i)) % 2

RECURSIVE Ones(_, _, _)
Ones(raw, n, i) == IF n = 0 THEN 0 ELSE Ones(raw, n - 1, i) + Bit(At(raw, n - 1), i)

\* C22: the last byte of the encoder's frame is the exclusive-or of the
\* bytes before it: in every bit position the last byte has the parity of
\* the bytes before it, so the bytes of the whole frame cancel; for every
\* product line and device id.
C22_ChecksumIsXor ==
    ev.op = "parse_get" =>
        /\ BLen(ev.raw) = 9
        /\ At(ev.raw, 1) = ev.info.product_line
        /\ At(ev.raw, 2) = ev.info.lidar_id
        /\ \A i \in 0..7 :
              /\ Bit(At(ev.raw, BLen(ev.raw) - 1), i)
                    = Ones(ev.raw, BLen(ev.raw) - 1, i) % 2
              /\ Ones(ev.raw, BLen(ev.raw), i) % 2 = 0

C22_Witness ==
    /\ ev.op = "parse_get"
    /\ ev.info.product_line = 255
    /\ ev.info.lidar_id = 128
    /\ At(ev.raw, 8) = 182

\* C23: the send task sends each envelope it takes as one datagram to
\* 224.0.0.5 on the port packed in the envelope's key, whatever address the
\* key holds, and the bytes are those of the envelope: the query frame the
\* encoder built.
C23_MulticastDestination ==
    [][ev'.op = "udp_send"
         => /\ ws_to_udp # <<>>
            /\ ev'.info.ip = <<224, 0, 0, 5>>
            /\ ev'.info.port = Head(ws_to_udp).key[5] * 256 + Head(ws_to_udp).key[6]
            /\ ev'.data = Head(ws_to_udp).raw_data
            /\ \E li \in {IdB, IdC, IdP} :
                  /\ IsQueryFrame(ev'.data, li)
                  /\ ev'.info.port = li.port]_vars

C23_Witness ==
    /\ ev.op = "udp_send"
    /\ get_ip(ev.key) = IP2
    /\ get_port(ev.key) = PORT + 1
    /\ ev.info = [ip |-> <<224, 0, 0, 5>>, port |-> PORT + 1]
    /\ \E c \in Sessions : /\ ws_pending[c] # <<>>
                           /\ get_ip(ws_pending[c][1].key) = IP1

\* the fields of the frame a decode step was given
ProductLineOf(e) == At(e.data, 1)
ModeOf(e) == At(e.data, 3)
ParamOf(e) == At(e.data, 4)
PayloadLenOf(e) == BLen(e.data) - 8

\* C24: a point-cloud frame that decodes yields 400 points when its product
\* line is not 2, 3 or 7, 480 points when it is 2 or 3, and 1080 when it is
\* 7; and with a product line not in {2, 3, 7}, a channel in 0..3 and 400
\* samples or more it does decode.
C24_PointCount ==
    (ev.op = "parse" /\ ModeOf(ev) = 221) =>
        /\ ev.res = "ok" =>
              ev.info.value.data.point_cloud.points =
                  IF ProductLineOf(ev) \in {2, 3} THEN 480
                  ELSE IF ProductLineOf(ev) = 7 THEN 1080 ELSE 400
        /\ (/\ ProductLineOf(ev) \notin {2, 3, 7}
            /\ ParamOf(ev) % 16 \in 0..3
            /\ PayloadLenOf(ev) >= 801) => ev.res = "ok"

C24_Witness ==
    /\ ev.op = "parse"
    /\ ModeOf(ev) = 221
    /\ ProductLineOf(ev) = 7
    /\ ev.res = "ok"
    /\ ev.info.value.data.point_cloud.points = 1080

\* C25: a complete configuration frame with parameter 0x63 and a one-byte
\* payload v decodes to the motor-speed record holding v, whatever its
\* product line, device id and last (checksum) byte; the frame
\* [FA, 00, 01, CF, 63, 00, 01, 05, c] gives speed 5.
C25_MotorSpeed ==
    (ev.op = "parse" /\ ModeOf(ev) = 207 /\ ParamOf(ev) = 99
                     /\ PayloadLenOf(ev) = 1) =>
        /\ ev.res = "ok"
        /\ ev.info.value.data = [speed |-> At(ev.data, 7)]
        /\ ev.info.value.status = ""
        /\ (\E c \in U8 : ev.data = BV(<<250, 0, 1, 207, 99, 0, 1, 5, c>>, 0))
              => ev.info.value.data.speed = 5

C25_Witness ==
    /\ ev.op = "parse"
    /\ ev.data = BV(<<250, 0, 1, 207, 99, 0, 1, 5, 0>>, 0)
    /\ At(ev.data, 8) # checksum(SubSeq(ev.data.head, 1, 8))
    /\ ev.res = "ok"
    /\ ev.info.value.data = [speed |-> 5]

\* the parameters the claim lists: 13 records and 24 acknowledgements
RecordParams == {17, 113, 209, 241, 67, 99, 131, 163, 195, 227, 5, 21, 53}
AckList ==
    {1, 33, 49, 65, 81, 97, 129, 145, 161, 177, 193, 225,
     3, 19, 35, 51, 83, 115, 157, 179, 211, 243, 37, 69}

\* the payload bytes a record's arm reads
MinLen(param) ==
    CASE param = 17 -> 14 [] param = 113 -> 7 [] param = 209 -> 20
      [] param = 67 -> 4 [] param = 131 -> 6 [] param = 21 -> 2
      [] OTHER -> 1

\* the payload holds every byte its parameter's arm reads: no user area in
\* a basic configuration, no taught points in a teaching area
Enough(e) ==
    /\ PayloadLenOf(e) >= MinLen(ParamOf(e))
    /\ ParamOf(e) = 17 => At(e.data, 7 + 13) = 0
    /\ ParamOf(e) = 241 => At(e.data, 7) # 1

C27_ModeDispatch ==
    ev.op = "parse" =>
        LET mode == ModeOf(ev)
            p == ParamOf(ev)
            pl == ProductLineOf(ev)
        IN  /\ mode = 207 =>
                  /\ ev.res = "err" <=> KMConfigData_of(p) = "not supported param"
                  /\ ev.res = "ok" =>
                        DOMAIN ev.info.value.data = FieldsOf(KMConfigData_of(p))
            /\ mode = 240 =>
                  /\ ev.res = "ok"
                  /\ ev.info.value.status = "error"
                  /\ ev.info.value.message = "NAK"
                  /\ ev.info.value.data = Null
            /\ mode = 221 =>
                  /\ ev.res # "err"
                  /\ ev.res = "ok" =>
                        /\ ev.info.value.status = "none"
                        /\ ev.info.value.data.channel = p % 16
                        /\ DOMAIN ev.info.value.data =
                              {"point_cloud", "channel", "detection_value"}
                  /\ (/\ p % 16 < (IF pl \in {2, 3} THEN 2 ELSE IF pl = 7 THEN 1 ELSE 4)
                      /\ PayloadLenOf(ev) >= 2161) => ev.res = "ok"
            /\ mode \notin {207, 240, 221} =>
                  /\ ev.res = "ok"
                  /\ ev.info.value.status = ""
                  /\ ev.info.value.message = ""
                  /\ ev.info.value.data = Null

C27_Witness ==
    /\ ev.op = "parse"
    /\ ModeOf(ev) = 1
    /\ ParamOf(ev) = 99
    /\ PayloadLenOf(ev) = 801
    /\ ev.res = "ok"
    /\ ev.info.value.data = Null

\* C28: the key of an (address, port) pair is a function of the pair, two
\* different pairs have different keys, the key is six bytes (below 2^48), and
\* get_ip and get_port of the key return the address and the port.
C28_KeyInjective ==
    ev.op = "key" =>
        /\ ev.info.a = ev.info.b <=> ev.key = ev.info.key_b
        /\ Len(ev.key) = 6
        /\ \A i \in 1..6 : ev.key[i] \in 0..255
        /\ ev.info.ip = ev.info.a.ip
        /\ ev.info.port = ev.info.a.port

C28_Witness ==
    /\ ev.op = "key"
    /\ ev.info.a = [ip |-> <<255, 255, 255, 1>>, port |-> 0]
    /\ ev.info.b = [ip |-> <<255, 255, 255, 0>>, port |-> 256]
    /\ ev.key # ev.info.key_b
    /\ ev.info.port = 0
    /\ ev.info.ip = <<255, 255, 255, 1>>

\* the signed value of a byte by the sign-correction rule: top bit set,
\* complement, add one, negate
Signed(b) == IF b >= 128 THEN -((255 - b) + 1) ELSE b

\* C29: the coordinate of two bytes is defined for every pair, 0x80 included
\* and with overflow checks or without; it is Signed(b0) + Signed(b1) * 0.01
\* (here in hundredths) and lies between -129.28 and 128.27.
C29_Coordinate ==
    ev.op = "parse_coordinate" =>
        /\ ev.res = "ok"
        /\ ev.info.value = Signed(ev.info.b0) * 100 + Signed(ev.info.b1)
        /\ ev.info.value \in -12928..12827

C29_Witness ==
    /\ ev.op = "parse_coordinate"
    /\ ev.info.b0 = 128
    /\ ev.info.b1 = 128
    /\ ev.info.checks
    /\ ev.res = "ok"
    /\ ev.info.value = -12928

\* C30: decoding the frame the encoder built returns a record, and the
\* record is the one that was encoded: it is decoded without error, it is of
\* the variant of the frame's parameter, and it belongs to the product line
\* and device id that were encoded.
C30_RoundTrip ==
    ev.op = "round_trip" =>
        /\ ev.res = "ok"
        /\ KMConfigData_of(ParamOf(ev)) # "not supported param"
        /\ DOMAIN ev.info.value.data = FieldsOf(KMConfigData_of(ParamOf(ev)))
        /\ ev.info.value.lidar_info.product_line = ev.info.sent.product_line
        /\ ev.info.value.lidar_info.lidar_id = ev.info.sent.lidar_id

\* the identity a frame carries: source address and port of its key, and its
\* product line and device id bytes
IdentityOf(key, raw) ==
    [ip |-> ip_to_string(<<key[1], key[2], key[3], key[4]>>),
     port |-> key[5] * 256 + key[6],
     product_line |-> At(raw, 1), lidar_id |-> At(raw, 2)]

\* C31: an identity enters the set of known devices only in the relay step
\* that decoded a complete frame of that identity without error; a step that
\* fails framing or decoding adds nothing; a frame of an identity already in
\* the set leaves the set as it was; the set loses elements only in a clear,
\* which empties it.
C31_KnownOnlyDecoded ==
    [][/\ lidar_infos' \ lidar_infos # {} =>
              /\ ev'.op = "relay"
              /\ ev'.res = "ok"
              /\ WholeFrame(ev'.raw)
              /\ lidar_infos' = lidar_infos \cup {IdentityOf(ev'.key, ev'.raw)}
       /\ (ev'.op = "relay" /\ ev'.res # "ok") => lidar_infos' = lidar_infos
       /\ ev'.op \in {"udp_recv", "udp_resume"} => lidar_infos' = lidar_infos
       /\ (ev'.op = "relay" /\ IdentityOf(ev'.key, ev'.raw) \in lidar_infos)
              => lidar_infos' = lidar_infos
       /\ lidar_infos \ lidar_infos' # {} =>
              (ev'.op = "lidar_list" /\ lidar_infos' = {})]_vars

\* C31 witness: after a frame of one identity was decoded, a frame that is
\* rejected has gone through the relay and the set holds that one identity.
C31_Witness ==
    /\ ev.op = "relay"
    /\ ev.res = "err"
    /\ WholeFrame(ev.raw)
    /\ lidar_infos = {IdC}

\* C32: decoding a complete frame gives a record or a decode error value,
\* whatever its mode, parameter, product line and payload; it never faults.
C32_NoFault ==
    (ev.op = "parse" /\ WholeFrame(ev.data)) => ev.res \in {"ok", "err"}

\* C33: a basic configuration whose user area declares n points and holds
\* n * 4 coordinate bytes decodes to that area with n points, each with
\* z = 0, for every n in 0..255.
C33_AreaPoints ==
    (ev.op = "parse" /\ ModeOf(ev) = 207 /\ ParamOf(ev) = 17
                     /\ At(ev.data, 7 + 13) = 1
                     /\ PayloadLenOf(ev) = 15 + 4 * At(ev.data, 7 + 14)) =>
        /\ ev.res = "ok"
        /\ Len(ev.info.value.data.areas) = 1
        /\ ev.info.value.data.areas[1][1] = At(ev.data, 7 + 14)
        /\ Len(ev.info.value.data.areas[1][2]) = At(ev.data, 7 + 14)
        /\ \A i \in DOMAIN ev.info.value.data.areas[1][2] :
              ev.info.value.data.areas[1][2][i].z = 0

\* a buffer between two datagrams: empty, or 0xFA first and fewer than 7
\* bytes, or 0xFA first and fewer bytes than the frame at its head declares
AtRest(raw) ==
    \/ BLen(raw) = 0
    \/ At(raw, 0) = 250 /\ BLen(raw) < 7
    \/ /\ At(raw, 0) = 250
       /\ BLen(raw) >= 7
       /\ BLen(raw) < At(raw, 5) * 256 + At(raw, 6) + 8

\* C34: once the receive task is done with a datagram (it is not suspended
\* in the hand-off of that datagram's frame), every key's buffer is at rest:
\* it holds no complete and no overrun frame, and at most 65542 bytes.
C34_BufferAtRest ==
    recv_pc # "send" =>
        \A k \in DOMAIN channel_data :
            /\ AtRest(channel_data[k])
            /\ ~WholeFrame(channel_data[k])
            /\ ~Overrun(channel_data[k])
            /\ BLen(channel_data[k]) <= 65542

\* the receive step ev' left the buffer of every key but its own as it was
OthersKept ==
    \A k \in (DOMAIN channel_data \cup DOMAIN channel_data') \ {ev'.key} :
        Buffer(channel_data', k) = Buffer(channel_data, k)

\* C35: a datagram of one key changes the buffer of no other key, whatever
\* becomes of it (kept, discarded for its first byte or for overrun, handed
\* off), and it leaves the receive task running, so that the frames of the
\* other keys are dispatched as if it had not been sent.
C35_KeyIsolation ==
    [][ev'.op = "udp_recv" => (OthersKept /\ recv_pc' # "dead")]_vars

\* C36: the reply to get/lidar_list lists every identity that was decoded
\* between the requesting session's clear and the reply, also when another
\* session issued get/lidar_list in between.
C36_ListHoldsWindow ==
    ev.op = "lidar_list_reply" =>
        /\ sent # {}
        /\ \A m \in sent : m.to = ev.sess /\ ev.info.seen \subseteq m.msg.data

\* C37: while a session sleeps in get/lidar_list, the relay task can take
\* the envelope that waits for it, every other session that is idle can have
\* a request answered and can start a list request of its own, every other
\* session that sleeps can be answered, and the sleeping session itself can
\* start no request.
C37_LockFreeInSleep ==
    \A s \in Sessions :
        sess_pc[s] = "sleep" =>
            /\ (relay_alive /\ udp_to_ws # <<>>) => ENABLED Relay
            /\ \A t \in Sessions \ {s} :
                  /\ sess_pc[t] = "idle" =>
                        /\ ENABLED RegisterLidar(t, IdA)
                        /\ ENABLED LidarListClear(t)
                  /\ sess_pc[t] = "sleep" => ENABLED LidarListReply(t)
            /\ ~ENABLED RegisterLidar(s, IdA)
            /\ ~ENABLED LidarListClear(s)

\* C37 witness: during the sleep of session 1 the relay has decoded a frame
\* and inserted its identity, and session 2 is idle.
C37_Witness ==
    /\ sess_pc[1] = "sleep"
    /\ sess_pc[2] = "idle"
    /\ ev.op = "relay"
    /\ ev.res = "ok"
    /\ window[1].seen = {IdA}
    /\ IdA \in lidar_infos

\* C38: no task waits for good.  A receive task suspended on the full
\* channel is let go by the relay, which can take the envelope in the channel
\* (or, the relay gone, by the failure of its send); a session suspended on
\* the full channel is let go by the send task, which can take the envelope
\* in the channel; a session in its sleep can reply; and whenever a channel
\* holds an envelope its consumer can take it.
C38_NoDeadlock ==
    /\ recv_pc = "send" =>
          \/ ENABLED UdpSendResume
          \/ relay_alive /\ udp_to_ws # <<>> /\ ENABLED Relay
    /\ (relay_alive /\ udp_to_ws # <<>>) => ENABLED Relay
    /\ ws_to_udp # <<>> => ENABLED UdpSend
    /\ \A s \in Sessions :
          /\ sess_pc[s] = "send" =>
                \/ ENABLED WsSendResume(s)
                \/ ws_to_udp # <<>> /\ ENABLED UdpSend
          /\ sess_pc[s] = "sleep" => ENABLED LidarListReply(s)

\* C38 witness: the receive task and a session are both suspended on full
\* channels while another session sleeps.
C38_Witness ==
    /\ recv_pc = "send"
    /\ relay_alive
    /\ \E s \in Sessions, t \in Sessions :
          sess_pc[s] = "send" /\ sess_pc[t] = "sleep"

\* C39: the send task that has read None from its closed channel has
\* stopped: it cannot read the channel again.
C39_ConsumerStops ==
    (ev.op = "udp_send" /\ ev.res = "closed") => ~ENABLED UdpSendClosed

\* C40: a session whose disconnect handling has completed has no sink in
\* the session map and no entry in the subscription map, and no step sends
\* it a reply or a pushed frame.
C40_NothingLeft ==
    \A s \in Sessions :
        sess_pc[s] = "closed" =>
            /\ s \notin clients
            /\ s \notin DOMAIN client_lidar_map
            /\ \A m \in sent : m.to # s

\* C40 witness: a session that had named a device has gone, a frame of that
\* device has been decoded, and another session is sent a reply.
C40_Witness ==
    \E s \in Sessions :
        /\ sess_pc[s] = "closed"
        /\ registered[s] # Null
        /\ lidar_infos # {}
        /\ \E m \in sent : m.to # s /\ m.to \in clients

====
